---- MODULE Spec2Model ----
(***************************************************************************)
(* The architect store (zustand), the canvas handlers that feed it, and    *)
(* the mock simulation engine hook, as one state machine.                   *)
(*                                                                         *)
(* Conventions.  Ids are tuples: the template string `${type}-${t}` is the *)
(* pair <<type, t>>, and the JavaScript null is the empty tuple.  Property *)
(* values (string | number | boolean) are written as their literals; only  *)
(* equality of values is used.  Every handler runs to completion, and the  *)
(* re-render that a store write causes (with the effect of the engine hook *)
(* re-run in the same task, as React 18 does for a synchronous external    *)
(* store update) is part of the handler's step.                            *)
(***************************************************************************)
EXTENDS Integers, Sequences, FiniteSets, TLC

VARIABLES
  nodes,            \* store: Node[]
  edges,            \* store: Edge[]
  selectedNodeId,   \* store: string | null
  selectedEdgeId,   \* store: string | null
  nodeStatuses,     \* store: Record<string, NodeStatus>
  simulation,       \* store: SimulationState
  currentProject,   \* store: project | null
  projects,         \* store: project[]
  reactFlowNodes,   \* ArchitectCanvas: useNodesState
  reactFlowEdges,   \* ArchitectCanvas: useEdgesState
  mounted,          \* whether the Index page (canvas + engine hook) is mounted
  timers,           \* armed setInterval closures of useSimulationEngine
  now,              \* Date.now()
  serializer,       \* designSerializer: the document and results last returned
  simulationWebSocket  \* the SimulationWebSocketClient singleton and its sockets

vars == <<nodes, edges, selectedNodeId, selectedEdgeId, nodeStatuses, simulation,
          currentProject, projects, reactFlowNodes, reactFlowEdges, mounted,
          timers, now, serializer, simulationWebSocket>>

storeVars == <<nodes, edges, selectedNodeId, selectedEdgeId, nodeStatuses,
               simulation, currentProject, projects>>

---------------------------------------------------------------------------
(* Bounds of the model *)

MaxNodes == 2       \* nodes on the rendering surface
MaxEdges == 2       \* edges in the store / on the rendering surface
MaxClock == 3       \* clock readings taken (ids and timestamps generated)
MaxEvents == 2      \* simulation events kept
MaxSnapshots == 1   \* snapshots kept
MaxProjects == 2    \* projects kept
MaxLayoutNodes == 5 \* nodes of a node list handed to the layout operations
MaxPlaced == 3      \* nodes of such a list that take every placement
MaxStored == 2      \* snapshots stored by back-to-back createSnapshot calls
MaxSockets == 7     \* sockets the client creates

---------------------------------------------------------------------------
(* Values *)

null == <<>>

\* Date.now() is epoch milliseconds; any reading is far beyond the default
\* duration of 300.  Epoch stands for the first reading.
Epoch == 1000

DefaultDuration == 300

Ids(s) == {s[i].id : i \in DOMAIN s}

IdSeq(s) == [i \in DOMAIN s |-> s[i].id]

Prop(id, value) == [id |-> id, value |-> value]

getDefaultPropertiesForType(type) ==
  CASE type = "load-balancer" ->
         << Prop("name", "New Load Balancer"),
            Prop("description", ""),
            Prop("algorithm", "RoundRobin"),
            Prop("healthCheckInterval", "30"),
            Prop("maxConnections", "1000") >>
    [] OTHER ->
         << Prop("name", "New Component"),
            Prop("description", "") >>

Pos(x, y) == [x |-> x, y |-> y]

\* node.measured: width and height as the surface measured them; 0 stands for
\* a dimension that is not there (the code reads both with `|| default`).
Measured(width, height) == [width |-> width, height |-> height]

Unmeasured == Measured(0, 0)

\* A node: id, type and data.properties (hasProperties is FALSE when data
\* carries no property list), position, selected and measured.  A node is
\* made unselected and unmeasured, at the position of the store's tests.
Node(id, type, hasProperties, properties) ==
  [id |-> id, type |-> type, hasProperties |-> hasProperties,
   properties |-> properties, position |-> Pos(100, 100), selected |-> FALSE,
   measured |-> Unmeasured]

\* An edge: id, endpoints and data (hasData is FALSE when the edge has no
\* data).  An edge is made without throughput and errorRate in its data.
Edge(id, source, target, hasData, status, protocol) ==
  [id |-> id, source |-> source, target |-> target, hasData |-> hasData,
   status |-> status, protocol |-> protocol, throughput |-> <<>>,
   errorRate |-> <<>>]

NoData == "undefined"

---------------------------------------------------------------------------
(* designSerializer: documents *)

\* A JavaScript value of a document field: undefined (the field is missing),
\* null, a string, or an array of elements.
Undefined == [kind |-> "undefined", items |-> <<>>]

JsNull == [kind |-> "null", items |-> <<>>]

JsString == [kind |-> "string", items |-> <<>>]

Array(items) == [kind |-> "array", items |-> items]

\* An object held by a field (the viewport).
Object(value) == [kind |-> "object", items |-> <<value>>]

\* !value
IsFalsy(value) == value.kind \in {"undefined", "null"}

\* Array.isArray(value)
IsArray(value) == value.kind = "array"

\* reading value.length throws a TypeError
LengthThrows(value) == value.kind \in {"undefined", "null"}

\* An optional field of an element: <<v>> when present, <<>> when missing.
Some(v) == <<v>>

Missing == <<>>

\* A document: designData.  isNull is TRUE for null / undefined.
Document(version, ns, es, viewport) ==
  [isNull |-> FALSE, version |-> version, nodes |-> ns, edges |-> es,
   viewport |-> viewport]

NullDocument ==
  [isNull |-> TRUE, version |-> Undefined, nodes |-> Undefined, edges |-> Undefined,
   viewport |-> Undefined]

\* An element of a node array.  isNull is TRUE for a null element.
NodeElement(id, position, properties) ==
  [isNull |-> FALSE, id |-> id, position |-> position, properties |-> properties,
   selected |-> FALSE]

\* An element of an edge array.
EdgeElement(id, source, target, protocol, status) ==
  [isNull |-> FALSE, id |-> id, source |-> source, target |-> target,
   protocol |-> protocol, status |-> status, selected |-> FALSE]

NullElement == [isNull |-> TRUE]

DefaultViewport == [x |-> 0, y |-> 0, zoom |-> 1]

EmptyRecord == [id \in {} |-> ""]

\* What deserializeDesign returns.
Graph(ns, es, viewport) == [nodes |-> ns, edges |-> es, viewport |-> viewport]

EmptyGraph == Graph(Array(<<>>), Array(<<>>), Object(DefaultViewport))

\* Before any call: no document, nothing deserialized, nothing validated.
NothingSerialized ==
  [designData |-> NullDocument,
   loaded |-> Graph(Undefined, Undefined, Undefined),
   validation |-> [isValid |-> FALSE, errors |-> <<>>]]

\* config.reconnectAttempts || 5, for the singleton constructed without config
reconnectAttempts == 5

\* The client as constructed.  sockets holds the state of every socket made
\* by `new WebSocket`, in order of creation; ws is the index of this.ws in
\* it, 0 for null; reconnectTimers counts the setTimeout callbacks pending.
Constructed ==
  [ws |-> 0, sockets |-> <<>>, currentAttempts |-> 0, sessionId |-> null,
   reconnectTimers |-> 0]

---------------------------------------------------------------------------
(* Initial state: the store as constructed, the page mounted over it *)

DefaultProject == [id |-> <<"default">>, name |-> "New Architecture",
                   lastModified |-> Epoch]

EmptyStatuses == [id \in {} |-> null]

Init ==
  /\ nodes = <<>>
  /\ edges = <<>>
  /\ selectedNodeId = null
  /\ selectedEdgeId = null
  /\ nodeStatuses = EmptyStatuses
  /\ simulation = [isRunning |-> FALSE, currentTime |-> 0, speed |-> 1,
                   progress |-> 0, duration |-> DefaultDuration,
                   events |-> <<>>, snapshots |-> <<>>]
  /\ currentProject = DefaultProject
  /\ projects = <<DefaultProject>>
  /\ reactFlowNodes = <<>>
  /\ reactFlowEdges = <<>>
  /\ mounted = TRUE
  /\ timers = <<>>
  /\ now = Epoch
  /\ serializer = NothingSerialized
  /\ simulationWebSocket = Constructed

\* A handler that reads Date.now() runs at reading `now`; the next handler
\* runs at a later reading.
ClockLeft == now < Epoch + MaxClock

---------------------------------------------------------------------------
(* useSimulationEngine: the effect and its cleanup *)

\* What the interval callback closes over.
Closure(sim, ns) ==
  [currentTime |-> sim.currentTime, speed |-> sim.speed,
   duration |-> sim.duration, nodes |-> ns]

\* a cleanup that leaves the interval armed
EffectCleanupNone(ts) == ts

\* return () => clearInterval(interval): the interval this effect armed is
\* cleared before the effect runs again.
EffectCleanup(ts) == IF ts = <<>> THEN <<>> ELSE Tail(ts)

\* if (!simulation.isRunning) return; const interval = setInterval(...)
EffectRun(ts, sim, ns) ==
  IF sim.isRunning THEN Append(ts, Closure(sim, ns)) ELSE ts

useEffect(ts, sim, ns) == EffectRun(EffectCleanup(ts), sim, ns)

\* The re-render after a store write: the effect of the mounted hook is
\* brought up to date with the new store state.
Render ==
  timers' = IF mounted THEN useEffect(timers, simulation', nodes') ELSE timers

---------------------------------------------------------------------------
(* Store: graph operations *)

\* setNodes(nodes) with a node list (not an updater)
setNodes(ns) == nodes' = ns

\* setEdges(edges) with an edge list (not an updater)
setEdges(es) == edges' = es

newEdge(connection, t) ==
  Edge(<<"edge", t>>, connection.source, connection.target, FALSE, NoData, NoData)

\* onConnect(connection)
onConnect(connection) == edges' = Append(edges, newEdge(connection, now))

\* a map that writes the value into every property
updatedPropertiesAll(properties, propertyId, value) ==
  [i \in DOMAIN properties |-> [properties[i] EXCEPT !.value = value]]

updatedProperties(properties, propertyId, value) ==
  [i \in DOMAIN properties |->
     IF properties[i].id = propertyId
     THEN [properties[i] EXCEPT !.value = value]
     ELSE properties[i]]

\* the node map of updateNodeProperty: (node.data?.properties || []) mapped,
\* written back as data.properties
updateNode(node, nodeId, propertyId, value) ==
  IF node.id = nodeId
  THEN [node EXCEPT
          !.hasProperties = TRUE,
          !.properties = updatedProperties(
                           IF node.hasProperties THEN node.properties ELSE <<>>,
                           propertyId, value)]
  ELSE node

updateNodeProperty(nodeId, propertyId, value) ==
  nodes' = [i \in DOMAIN nodes |-> updateNode(nodes[i], nodeId, propertyId, value)]

\* a selectNode that leaves the edge selection alone
selectNodeKeepsEdge(nodeId) ==
  /\ selectedNodeId' = nodeId
  /\ selectedEdgeId' = selectedEdgeId

\* selectNode(nodeId)
selectNode(nodeId) ==
  /\ selectedNodeId' = nodeId
  /\ selectedEdgeId' = null

\* selectEdge(edgeId)
selectEdge(edgeId) ==
  /\ selectedEdgeId' = edgeId
  /\ selectedNodeId' = null

---------------------------------------------------------------------------
(* Store: layout operations *)

\* the grid cell of list index `index` (from 0)
gridPositionThreeColumns(index) ==
  Pos((index % 3) * 250 + 50, (index \div 3) * 150 + 50)

\* row = Math.floor(index / 4), col = index % 4
gridPosition(index) ==
  Pos((index % 4) * 250 + 50, (index \div 4) * 150 + 50)

autoLayout(ns) ==
  [i \in DOMAIN ns |-> [ns[i] EXCEPT !.position = gridPosition(i - 1)]]

\* autoLayoutNodes()
autoLayoutNodes ==
  IF Len(nodes) = 0 THEN nodes' = nodes ELSE nodes' = autoLayout(nodes)

\* state.nodes.filter(node => node.selected)
selectedNodes(ns) == SelectSeq(ns, LAMBDA n : n.selected)

\* node.measured?.width || 200, node.measured?.height || 100
width(node) == IF node.measured.width = 0 THEN 200 ELSE node.measured.width

height(node) == IF node.measured.height = 0 THEN 100 ELSE node.measured.height

\* The accumulator of the reduce: a number, or the Infinity / -Infinity it
\* starts from.
Num(v) == [infinite |-> FALSE, v |-> v]

Infinite == [infinite |-> TRUE, v |-> 0]

\* Math.min(acc, v), acc a number or Infinity
MathMin(acc, v) == IF acc.infinite \/ v < acc.v THEN Num(v) ELSE acc

\* Math.max(acc, v), acc a number or -Infinity
MathMax(acc, v) == IF acc.infinite \/ v > acc.v THEN Num(v) ELSE acc

RECURSIVE sumX(_)
sumX(ns) == IF ns = <<>> THEN 0 ELSE Head(ns).position.x + sumX(Tail(ns))

\* a / b of two whole numbers; the model covers the calls whose quotient is
\* a whole number (IsWhole)
Quotient(a, b) == a \div b

IsWhole(a, b) == a % b = 0

\* the callback of the reduce over the selected nodes
alignReducer(acc, node, alignment, selected) ==
  CASE alignment = "left" -> MathMin(acc, node.position.x)
    [] alignment = "right" -> MathMax(acc, node.position.x + width(node))
    [] alignment = "top" -> MathMin(acc, node.position.y)
    [] alignment = "bottom" -> MathMax(acc, node.position.y + height(node))
    [] alignment = "center" -> Num(Quotient(sumX(selected), Len(selected)))

RECURSIVE alignReduce(_, _, _, _)
alignReduce(rest, acc, alignment, selected) ==
  IF rest = <<>>
  THEN acc
  ELSE alignReduce(Tail(rest), alignReducer(acc, Head(rest), alignment, selected),
                   alignment, selected)

alignValue(selected, alignment) == alignReduce(selected, Infinite, alignment, selected).v

\* an alignment that puts the left edge, not the right or bottom edge, on
\* the reference
alignedNodeIgnoresSize(node, alignment, value) ==
  IF node.selected
  THEN IF alignment \in {"left", "right", "center"}
       THEN [node EXCEPT !.position.x = value]
       ELSE [node EXCEPT !.position.y = value]
  ELSE node

\* the map over state.nodes
alignedNode(node, alignment, value) ==
  IF node.selected
  THEN CASE alignment = "left" -> [node EXCEPT !.position.x = value]
         [] alignment = "right" -> [node EXCEPT !.position.x = value - width(node)]
         [] alignment = "top" -> [node EXCEPT !.position.y = value]
         [] alignment = "bottom" -> [node EXCEPT !.position.y = value - height(node)]
         [] alignment = "center" -> [node EXCEPT !.position.x = value]
  ELSE node

\* alignNodes(alignment)
alignNodes(alignment) ==
  LET selected == selectedNodes(nodes) IN
  IF Len(selected) < 2
  THEN nodes' = nodes
  ELSE nodes' = [i \in DOMAIN nodes |->
                   alignedNode(nodes[i], alignment, alignValue(selected, alignment))]

coordinate(node, direction) ==
  IF direction = "horizontal" THEN node.position.x ELSE node.position.y

\* the selected nodes in list order
listOrder(ns, direction) == ns

RECURSIVE insertSorted(_, _, _)
insertSorted(sorted, node, direction) ==
  IF sorted = <<>>
  THEN <<node>>
  ELSE IF coordinate(node, direction) < coordinate(Head(sorted), direction)
       THEN <<node>> \o sorted
       ELSE <<Head(sorted)>> \o insertSorted(Tail(sorted), node, direction)

\* Array.prototype.sort with the comparator a - b on the axis: ascending, and
\* stable (equal elements keep their list order)
RECURSIVE sortByCoordinate(_, _)
sortByCoordinate(ns, direction) ==
  IF ns = <<>>
  THEN <<>>
  ELSE insertSorted(sortByCoordinate(SubSeq(ns, 1, Len(ns) - 1), direction),
                    ns[Len(ns)], direction)

\* selectedNodes.findIndex(n => n.id === node.id), from 0; -1 when absent
findIndex(ns, id) ==
  IF \E i \in DOMAIN ns : ns[i].id = id
  THEN (CHOOSE i \in DOMAIN ns : ns[i].id = id /\ \A k \in 1..(i - 1) : ns[k].id # id) - 1
  ELSE -1

totalSpace(sorted, direction) ==
  coordinate(sorted[Len(sorted)], direction) - coordinate(sorted[1], direction)

\* the map over state.nodes
distributedNode(node, sorted, direction) ==
  LET index == findIndex(sorted, node.id)
      spacing == Quotient(totalSpace(sorted, direction), Len(sorted) - 1)
      value == coordinate(sorted[1], direction) + spacing * index
  IN IF index > 0 /\ index < Len(sorted) - 1
     THEN IF direction = "horizontal"
          THEN [node EXCEPT !.position.x = value]
          ELSE [node EXCEPT !.position.y = value]
     ELSE node

\* distributeNodes(direction)
distributeNodes(direction) ==
  LET sorted == sortByCoordinate(selectedNodes(nodes), direction) IN
  IF Len(sorted) < 3
  THEN nodes' = nodes
  ELSE nodes' = [i \in DOMAIN nodes |-> distributedNode(nodes[i], sorted, direction)]

---------------------------------------------------------------------------
(* Inputs *)

DropTypes == {"load-balancer"}

\* Node lists handed to setNodes by callers other than the canvas (the lists
\* of the store's tests: a node without and with a property list).
NodeListInputs ==
  { <<>>,
    << Node(<<"node", 1>>, "service", FALSE, <<>>) >>,
    << Node(<<"node", 1>>, "service", TRUE, <<>>) >> }

\* Edge lists handed to setEdges by callers other than the canvas.
EdgeListInputs ==
  { <<>>,
    << Edge(<<"edge", 1>>, <<"node", 1>>, <<"node", 2>>, FALSE, NoData, NoData) >> }

\* Endpoint ids a caller may pass to onConnect: ids of the store's nodes and
\* the ids of the store's tests.
EndpointInputs == Ids(nodes) \cup {<<"node", 1>>, <<"node", 2>>}

NodeIdInputs == Ids(nodes) \cup {<<"node", 1>>}

EdgeIdInputs == Ids(edges) \cup {<<"edge", 1>>}

PropertyIdInputs == {"name", "test-prop"}

ValueInputs == {"test-value"}

---------------------------------------------------------------------------
(* Store operations called directly *)

SetNodes ==
  \E ns \in NodeListInputs :
    /\ setNodes(ns)
    /\ UNCHANGED <<edges, selectedNodeId, selectedEdgeId, nodeStatuses, simulation,
                   currentProject, projects, reactFlowNodes, reactFlowEdges,
                   mounted, now, serializer, simulationWebSocket>>
    /\ Render

SetEdges ==
  \E es \in EdgeListInputs :
    /\ setEdges(es)
    /\ UNCHANGED <<nodes, selectedNodeId, selectedEdgeId, nodeStatuses, simulation,
                   currentProject, projects, reactFlowNodes, reactFlowEdges,
                   mounted, now, serializer, simulationWebSocket>>
    /\ Render

OnConnectStep(s, t) ==
  /\ ClockLeft
  /\ Len(edges) < MaxEdges
  /\ onConnect([source |-> s, target |-> t])
  /\ now' = now + 1
  /\ UNCHANGED <<nodes, selectedNodeId, selectedEdgeId, nodeStatuses, simulation,
                 currentProject, projects, reactFlowNodes, reactFlowEdges, mounted, serializer, simulationWebSocket>>
  /\ Render

OnConnect == \E s \in EndpointInputs, t \in EndpointInputs : OnConnectStep(s, t)

SelectNodeStep(id) ==
  /\ selectNode(id)
  /\ UNCHANGED <<nodes, edges, nodeStatuses, simulation, currentProject, projects,
                 reactFlowNodes, reactFlowEdges, mounted, now, serializer, simulationWebSocket>>
  /\ Render

SelectNode == \E id \in NodeIdInputs \cup {null} : SelectNodeStep(id)

SelectEdgeStep(id) ==
  /\ selectEdge(id)
  /\ UNCHANGED <<nodes, edges, nodeStatuses, simulation, currentProject, projects,
                 reactFlowNodes, reactFlowEdges, mounted, now, serializer, simulationWebSocket>>
  /\ Render

SelectEdge == \E id \in EdgeIdInputs \cup {null} : SelectEdgeStep(id)

UpdateNodePropertyStep(nodeId, propertyId, value) ==
  /\ updateNodeProperty(nodeId, propertyId, value)
  /\ UNCHANGED <<edges, selectedNodeId, selectedEdgeId, nodeStatuses, simulation,
                 currentProject, projects, reactFlowNodes, reactFlowEdges,
                 mounted, now, serializer, simulationWebSocket>>
  /\ Render

UpdateNodeProperty ==
  \E nodeId \in NodeIdInputs, propertyId \in PropertyIdInputs, value \in ValueInputs :
    UpdateNodePropertyStep(nodeId, propertyId, value)

---------------------------------------------------------------------------
(* ArchitectCanvas: the rendering surface's state and its handlers *)

\* applyNodeChanges / applyEdgeChanges of the rendering library, for the
\* change kinds used here: "remove" drops the element, every other kind
\* ("dimensions", "select") changes no field that is modelled.
applyChanges(change, elements) ==
  IF change.type = "remove"
  THEN SelectSeq(elements, LAMBDA e : e.id # change.id)
  ELSE elements

connectionExists(connection, es) ==
  \E i \in DOMAIN es :
    es[i].source = connection.source /\ es[i].target = connection.target

\* addEdge of the rendering library: the id is derived from the endpoints, and
\* a connection that already exists is not added again.
addEdge(connection, es) ==
  IF connectionExists(connection, es)
  THEN es
  ELSE Append(es, Edge(<<"xy-edge", connection.source, connection.target>>,
                       connection.source, connection.target, FALSE, NoData, NoData))

\* handleNodesChange: the surface applies the changes to its own state, and
\* the store is set to reactFlowNodes as the callback closed over it
handleNodesChange(change) ==
  /\ reactFlowNodes' = applyChanges(change, reactFlowNodes)
  /\ setNodes(reactFlowNodes)

\* handleEdgesChange
handleEdgesChange(change) ==
  /\ reactFlowEdges' = applyChanges(change, reactFlowEdges)
  /\ setEdges(reactFlowEdges)

\* handleConnect
handleConnect(params) ==
  /\ reactFlowEdges' = addEdge(params, reactFlowEdges)
  /\ onConnect(params)

newNode(type, t) == Node(<<type, t>>, type, TRUE, getDefaultPropertiesForType(type))

\* onDrop
onDrop(type) ==
  /\ reactFlowNodes' = Append(reactFlowNodes, newNode(type, now))
  /\ setNodes(Append(reactFlowNodes, newNode(type, now)))

HandleNodesChangeStep(id, type) ==
  /\ mounted
  /\ handleNodesChange([type |-> type, id |-> id])
  /\ UNCHANGED <<edges, selectedNodeId, selectedEdgeId, nodeStatuses, simulation,
                 currentProject, projects, reactFlowEdges, mounted, now, serializer, simulationWebSocket>>
  /\ Render

HandleNodesChange ==
  \E id \in Ids(reactFlowNodes), type \in {"remove", "dimensions"} :
    HandleNodesChangeStep(id, type)

HandleEdgesChangeStep(id, type) ==
  /\ mounted
  /\ handleEdgesChange([type |-> type, id |-> id])
  /\ UNCHANGED <<nodes, selectedNodeId, selectedEdgeId, nodeStatuses, simulation,
                 currentProject, projects, reactFlowNodes, mounted, now, serializer, simulationWebSocket>>
  /\ Render

HandleEdgesChange ==
  \E id \in Ids(reactFlowEdges), type \in {"remove", "select"} :
    HandleEdgesChangeStep(id, type)

HandleConnect ==
  \E s \in Ids(reactFlowNodes), t \in Ids(reactFlowNodes) :
    /\ mounted
    /\ ClockLeft
    /\ Len(edges) < MaxEdges
    /\ handleConnect([source |-> s, target |-> t])
    /\ now' = now + 1
    /\ UNCHANGED <<nodes, selectedNodeId, selectedEdgeId, nodeStatuses, simulation,
                   currentProject, projects, reactFlowNodes, mounted, serializer, simulationWebSocket>>
    /\ Render

OnDrop ==
  \E type \in DropTypes :
    /\ mounted
    /\ ClockLeft
    /\ Len(reactFlowNodes) < MaxNodes
    /\ onDrop(type)
    /\ now' = now + 1
    /\ UNCHANGED <<edges, selectedNodeId, selectedEdgeId, nodeStatuses, simulation,
                   currentProject, projects, reactFlowEdges, mounted, serializer, simulationWebSocket>>
    /\ Render

---------------------------------------------------------------------------
(* Store: simulation operations *)

startSimulation(sim) == [sim EXCEPT !.isRunning = TRUE]

\* a pause that also rewinds the clock
pauseSimulationRewinds(sim) == [sim EXCEPT !.isRunning = FALSE, !.currentTime = 0]

pauseSimulation(sim) == [sim EXCEPT !.isRunning = FALSE]

stopSimulation(sim) ==
  [sim EXCEPT !.isRunning = FALSE, !.currentTime = 0, !.progress = 0]

setSimulationSpeed(sim, speed) == [sim EXCEPT !.speed = speed]

setSimulationTime(sim, time) == [sim EXCEPT !.currentTime = time]

\* addSimulationEvent(event): the event gets the id `event-${Date.now()}`
addSimulationEvent(sim, event, t) ==
  [sim EXCEPT !.events =
     Append(@, [id |-> <<"event", t>>, time |-> event.time, type |-> event.type,
                componentId |-> event.componentId])]

\* an updateNodeStatus that merges the status into the entry that is there
updateNodeStatusMerged(statuses, nodeId, status) ==
  [id \in DOMAIN statuses \cup {nodeId} |->
     IF id = nodeId
     THEN (IF nodeId \in DOMAIN statuses THEN status @@ statuses[nodeId] ELSE status)
     ELSE statuses[id]]

\* updateNodeStatus(nodeId, status): the entry is replaced
updateNodeStatus(statuses, nodeId, status) ==
  [id \in DOMAIN statuses \cup {nodeId} |->
     IF id = nodeId THEN status ELSE statuses[id]]

\* The slider of the timeline offers 0.1 .. 5; whole speeds are modelled.
SpeedInputs == {1, 5}

SimUnchanged ==
  UNCHANGED <<nodes, edges, selectedNodeId, selectedEdgeId, nodeStatuses,
              currentProject, projects, reactFlowNodes, reactFlowEdges,
              mounted, now, serializer, simulationWebSocket>>

StartSimulation ==
  /\ simulation' = startSimulation(simulation)
  /\ SimUnchanged
  /\ Render

PauseSimulation ==
  /\ simulation' = pauseSimulation(simulation)
  /\ SimUnchanged
  /\ Render

StopSimulation ==
  /\ simulation' = stopSimulation(simulation)
  /\ SimUnchanged
  /\ Render

SetSimulationSpeed ==
  \E speed \in SpeedInputs :
    /\ simulation' = setSimulationSpeed(simulation, speed)
    /\ SimUnchanged
    /\ Render

\* SimulationEventMarkers.handleEventClick(eventId)
handleEventClick(sim, eventId) ==
  IF \E i \in DOMAIN sim.events : sim.events[i].id = eventId
  THEN LET i == CHOOSE j \in DOMAIN sim.events :
                  /\ sim.events[j].id = eventId
                  /\ \A k \in 1..(j - 1) : sim.events[k].id # eventId
       IN setSimulationTime(sim, sim.events[i].time)
  ELSE sim

HandleEventClick ==
  \E eventId \in Ids(simulation.events) :
    /\ mounted
    /\ simulation' = handleEventClick(simulation, eventId)
    /\ SimUnchanged
    /\ Render

\* useSimulation.handleSimulationMessage, case 'simulation_event'
simulationEventMessage(sim, componentId, t) ==
  addSimulationEvent(sim, [time |-> t, type |-> "info", componentId |-> componentId], t)

SimulationEventMessage ==
  \E componentId \in Ids(nodes) \cup {null} :
    /\ ClockLeft
    /\ Len(simulation.events) < MaxEvents
    /\ simulation' = simulationEventMessage(simulation, componentId, now)
    /\ now' = now + 1
    /\ UNCHANGED <<nodes, edges, selectedNodeId, selectedEdgeId, nodeStatuses,
                   currentProject, projects, reactFlowNodes, reactFlowEdges, mounted, serializer, simulationWebSocket>>
    /\ Render

---------------------------------------------------------------------------
(* useSimulationEngine: one firing of the interval callback *)

NodeStatusValues == {"active", "idle", "warning", "error"}

EdgeStatusValues == {"active", "idle", "success", "error"}

logLevel(status) ==
  IF status = "error" THEN "error" ELSE IF status = "warning" THEN "warn" ELSE "info"

\* the status object handed to updateNodeStatus (the random metrics are left out)
drawnStatus(status, t) ==
  [status |-> status, logs |-> <<[timestamp |-> t, level |-> logLevel(status)]>>]

\* a forEach that adds an event for error only
RECURSIVE tickNodesErrorEvents(_, _, _, _, _, _)
tickNodesErrorEvents(ns, draw, statuses, sim, newTime, t) ==
  IF ns = <<>>
  THEN [nodeStatuses |-> statuses, simulation |-> sim]
  ELSE tickNodesErrorEvents(
         Tail(ns), Tail(draw),
         updateNodeStatus(statuses, Head(ns).id, drawnStatus(Head(draw), t)),
         IF Head(draw) = "error"
         THEN addSimulationEvent(sim, [time |-> newTime, type |-> Head(draw),
                                       componentId |-> Head(ns).id], t)
         ELSE sim,
         newTime, t)

\* nodes.forEach(...): the status write and, for warning and error, the event
\* of every node of the closure, in list order, with the draws `draw`
RECURSIVE tickNodes(_, _, _, _, _, _)
tickNodes(ns, draw, statuses, sim, newTime, t) ==
  IF ns = <<>>
  THEN [nodeStatuses |-> statuses, simulation |-> sim]
  ELSE tickNodes(
         Tail(ns), Tail(draw),
         updateNodeStatus(statuses, Head(ns).id, drawnStatus(Head(draw), t)),
         IF Head(draw) \in {"error", "warning"}
         THEN addSimulationEvent(sim, [time |-> newTime, type |-> Head(draw),
                                       componentId |-> Head(ns).id], t)
         ELSE sim,
         newTime, t)

\* What Math.floor(Math.random() * n) returns: 0 and a number above it.
NumberDraws == {0, 7}

\* The draws of the updater for one edge: the status and the number that
\* Math.floor(Math.random() * n) returns where the updater calls it (for
\* active and error it is drawn; for idle and success it is not, and the
\* number stands for one that would have been).
EdgeDraws ==
  { [status |-> status, number |-> number] :
      status \in {"active", "error"}, number \in NumberDraws } \cup
  { [status |-> status, number |-> 7] : status \in EdgeStatusValues \ {"active", "error"} }

\* an updater that sets throughput whatever the status
tickEdgeThroughputAlways(edge, draw) ==
  [edge EXCEPT !.hasData = TRUE,
               !.status = draw.status,
               !.throughput = <<draw.number>>,
               !.errorRate = <<IF draw.status = "error" THEN draw.number ELSE 0>>,
               !.protocol = IF edge.hasData /\ edge.protocol # NoData
                            THEN edge.protocol ELSE "HTTP"]

\* the updater handed to setEdges, for one edge (latency is left out)
tickEdge(edge, draw) ==
  [edge EXCEPT !.hasData = TRUE,
               !.status = draw.status,
               !.throughput = <<IF draw.status = "active" THEN draw.number ELSE 0>>,
               !.errorRate = <<IF draw.status = "error" THEN draw.number ELSE 0>>,
               !.protocol = IF edge.hasData /\ edge.protocol # NoData
                            THEN edge.protocol ELSE "HTTP"]

eventsDrawn(draw) == Cardinality({i \in DOMAIN draw : draw[i] \in {"error", "warning"}})

\* a test that lets the clock reach the duration
simulationCompleteAfter(newTime, duration) == newTime > duration

\* if (newTime >= simulation.duration) return
simulationComplete(newTime, duration) == newTime >= duration

\* the interval callback of closure c
tick(c, nodeDraw, edgeDraw) ==
  LET newTime == c.currentTime + c.speed IN
  IF simulationComplete(newTime, c.duration)
  THEN UNCHANGED <<nodeStatuses, simulation, edges, now>>
  ELSE LET r == tickNodes(c.nodes, nodeDraw, nodeStatuses,
                          setSimulationTime(simulation, newTime), newTime, now)
       IN /\ ClockLeft
          /\ Len(simulation.events) + eventsDrawn(nodeDraw) <= MaxEvents
          /\ nodeStatuses' = r.nodeStatuses
          /\ simulation' = r.simulation
          /\ edges' = [i \in DOMAIN edges |-> tickEdge(edges[i], edgeDraw[i])]
          /\ now' = now + 1

Tick ==
  \E i \in DOMAIN timers :
    \E nodeDraw \in [DOMAIN timers[i].nodes -> NodeStatusValues],
       edgeDraw \in [DOMAIN edges -> EdgeDraws] :
      /\ tick(timers[i], nodeDraw, edgeDraw)
      /\ UNCHANGED <<nodes, selectedNodeId, selectedEdgeId, currentProject, projects,
                     reactFlowNodes, reactFlowEdges, mounted, serializer, simulationWebSocket>>
      /\ Render

\* The Index page is torn down: the effect's cleanup runs, the surface's
\* state is gone.
Unmount ==
  /\ mounted
  /\ mounted' = FALSE
  /\ timers' = EffectCleanup(timers)
  /\ reactFlowNodes' = <<>>
  /\ reactFlowEdges' = <<>>
  /\ UNCHANGED <<storeVars, now, serializer, simulationWebSocket>>

\* The Index page is mounted: useNodesState(nodes) and useEdgesState(edges)
\* start from the store, the effect runs.
Mount ==
  /\ ~mounted
  /\ mounted' = TRUE
  /\ timers' = EffectRun(timers, simulation, nodes)
  /\ reactFlowNodes' = nodes
  /\ reactFlowEdges' = edges
  /\ UNCHANGED <<storeVars, now, serializer, simulationWebSocket>>

\* Clock values a simulation can have reached, the last ones before the
\* duration among them.
ClockInputs == {0, 290, 294, 298, 299}

\* Graphs a tick runs over: the empty one, the node and the edge of the
\* store's tests (the edge without data), a node with an edge whose data
\* names a protocol, and two nodes without an edge.
TickGraphs ==
  { [nodes |-> <<>>, edges |-> <<>>],
    [nodes |-> << Node(<<"node", 1>>, "service", FALSE, <<>>) >>,
     edges |-> << Edge(<<"edge", 1>>, <<"node", 1>>, <<"node", 2>>, FALSE, NoData, NoData) >>],
    [nodes |-> << Node(<<"node", 1>>, "service", FALSE, <<>>) >>,
     edges |-> << Edge(<<"edge", 1>>, <<"node", 1>>, <<"node", 1>>, TRUE, "idle", "gRPC") >>],
    [nodes |-> << Node(<<"node", 1>>, "service", TRUE, <<Prop("name", "api")>>),
                  Node(<<"node", 2>>, "database", FALSE, <<>>) >>,
     edges |-> <<>>] }

\* The page mounted over a store whose simulation, not running, has reached
\* one of these clock values on a graph set through setNodes / setEdges.
TickInit ==
  /\ \E graph \in TickGraphs : nodes = graph.nodes /\ edges = graph.edges
  /\ selectedNodeId = null
  /\ selectedEdgeId = null
  /\ nodeStatuses = EmptyStatuses
  /\ \E time \in ClockInputs :
       simulation = [isRunning |-> FALSE, currentTime |-> time, speed |-> 1,
                     progress |-> 0, duration |-> DefaultDuration,
                     events |-> <<>>, snapshots |-> <<>>]
  /\ currentProject = DefaultProject
  /\ projects = <<DefaultProject>>
  /\ reactFlowNodes = nodes
  /\ reactFlowEdges = edges
  /\ mounted = TRUE
  /\ timers = <<>>
  /\ now = Epoch
  /\ serializer = NothingSerialized
  /\ simulationWebSocket = Constructed

---------------------------------------------------------------------------
(* Store: snapshots and projects *)

createSnapshot(sim, name, t) ==
  [sim EXCEPT !.snapshots =
     Append(@, [id |-> <<"snapshot", t>>, time |-> sim.currentTime, name |-> name,
                nodes |-> nodes, edges |-> edges])]

findById(s, id) ==
  s[CHOOSE i \in DOMAIN s : s[i].id = id /\ \A k \in 1..(i - 1) : s[k].id # id]

CreateSnapshot ==
  /\ ClockLeft
  /\ Len(simulation.snapshots) < MaxSnapshots
  /\ simulation' = createSnapshot(simulation, "snapshot", now)
  /\ now' = now + 1
  /\ UNCHANGED <<nodes, edges, selectedNodeId, selectedEdgeId, nodeStatuses,
                 currentProject, projects, reactFlowNodes, reactFlowEdges, mounted, serializer, simulationWebSocket>>
  /\ Render

\* createSnapshot(name) called by a caller of the store that makes its calls
\* back to back: Date.now() reads `now`, and the next call reads the same
\* millisecond (step 0) or a later one.
CreateSnapshotCall ==
  \E step \in {0, 1} :
    /\ now + step <= Epoch + MaxClock
    /\ Len(simulation.snapshots) < MaxStored
    /\ simulation' = createSnapshot(simulation, "snapshot", now)
    /\ now' = now + step
    /\ UNCHANGED <<nodes, edges, selectedNodeId, selectedEdgeId, nodeStatuses,
                   currentProject, projects, reactFlowNodes, reactFlowEdges, mounted, serializer, simulationWebSocket>>
    /\ Render

SnapshotIdInputs == Ids(simulation.snapshots) \cup {<<"snapshot", 1>>}

\* loadSnapshot(snapshotId)
LoadSnapshotStep(snapshotId) ==
  /\ IF snapshotId \in Ids(simulation.snapshots)
     THEN LET snapshot == findById(simulation.snapshots, snapshotId) IN
          /\ nodes' = snapshot.nodes
          /\ edges' = snapshot.edges
          /\ simulation' = [simulation EXCEPT !.currentTime = snapshot.time]
     ELSE UNCHANGED <<nodes, edges, simulation>>
  /\ UNCHANGED <<selectedNodeId, selectedEdgeId, nodeStatuses, currentProject,
                 projects, reactFlowNodes, reactFlowEdges, mounted, now, serializer, simulationWebSocket>>
  /\ Render

LoadSnapshot == \E snapshotId \in SnapshotIdInputs : LoadSnapshotStep(snapshotId)

\* the simulation of a freshly opened project
clearedSimulation(sim) ==
  [sim EXCEPT !.currentTime = 0, !.progress = 0, !.events = <<>>, !.snapshots = <<>>]

\* createProject(name)
CreateProject ==
  LET newProject == [id |-> <<"project", now>>, name |-> "Project",
                     lastModified |-> now] IN
  /\ ClockLeft
  /\ Len(projects) < MaxProjects
  /\ projects' = Append(projects, newProject)
  /\ currentProject' = newProject
  /\ nodes' = <<>>
  /\ edges' = <<>>
  /\ nodeStatuses' = EmptyStatuses
  /\ simulation' = clearedSimulation(simulation)
  /\ now' = now + 1
  /\ UNCHANGED <<selectedNodeId, selectedEdgeId, reactFlowNodes, reactFlowEdges, mounted, serializer, simulationWebSocket>>
  /\ Render

\* loadProject(projectId), on the store as `ps`, `cur` left by what ran before
loadProject(ps, cur, projectId) ==
  IF projectId \in Ids(ps)
  THEN /\ currentProject' = findById(ps, projectId)
       /\ nodes' = <<>>
       /\ edges' = <<>>
       /\ nodeStatuses' = EmptyStatuses
       /\ simulation' = clearedSimulation(simulation)
  ELSE /\ currentProject' = cur
       /\ UNCHANGED <<nodes, edges, nodeStatuses, simulation>>

ProjectIdInputs == Ids(projects) \cup {<<"project", 1>>}

LoadProject ==
  \E projectId \in ProjectIdInputs :
    /\ loadProject(projects, currentProject, projectId)
    /\ UNCHANGED <<projects, selectedNodeId, selectedEdgeId, reactFlowNodes,
                   reactFlowEdges, mounted, now, serializer, simulationWebSocket>>
    /\ Render

\* saveProject(): the stamped project list and current project
savedProjects(ps, cur, t) ==
  IF cur = null THEN ps
  ELSE [i \in DOMAIN ps |->
          IF ps[i].id = cur.id THEN [ps[i] EXCEPT !.lastModified = t] ELSE ps[i]]

savedCurrent(cur, t) == IF cur = null THEN cur ELSE [cur EXCEPT !.lastModified = t]

\* saveProject(), the Save button of the header
SaveProject ==
  /\ ClockLeft
  /\ currentProject # null
  /\ projects' = savedProjects(projects, currentProject, now)
  /\ currentProject' = savedCurrent(currentProject, now)
  /\ now' = now + 1
  /\ UNCHANGED <<nodes, edges, selectedNodeId, selectedEdgeId, nodeStatuses,
                 simulation, reactFlowNodes, reactFlowEdges, mounted, serializer, simulationWebSocket>>
  /\ Render

\* ProjectSwitcher.handleLoadProject(projectId): saveProject() when there is a
\* current project, then loadProject(projectId)
HandleLoadProject ==
  \E projectId \in Ids(projects) :
    /\ mounted
    /\ ClockLeft
    /\ projects' = savedProjects(projects, currentProject, now)
    /\ loadProject(projects', savedCurrent(currentProject, now), projectId)
    /\ now' = now + 1
    /\ UNCHANGED <<selectedNodeId, selectedEdgeId, reactFlowNodes, reactFlowEdges,
                   mounted, serializer, simulationWebSocket>>
    /\ Render

\* deleteProject(projectId)
DeleteProject ==
  \E projectId \in ProjectIdInputs :
    /\ projects' = SelectSeq(projects, LAMBDA p : p.id # projectId)
    /\ currentProject' =
         IF currentProject # null /\ currentProject.id = projectId
         THEN (IF projects' # <<>> THEN Head(projects') ELSE null)
         ELSE currentProject
    /\ UNCHANGED <<nodes, edges, selectedNodeId, selectedEdgeId, nodeStatuses,
                   simulation, reactFlowNodes, reactFlowEdges, mounted, now, serializer, simulationWebSocket>>
    /\ Render

---------------------------------------------------------------------------
(* updateNodeStatus called directly, and the session bridge (useSimulation
   over SimulationWebSocketClient) *)

\* Statuses handed to updateNodeStatus: the one of the store's test (no
\* logs) and one as the engine writes it (with logs).
StatusInputs == {[status |-> "active"], drawnStatus("error", Epoch)}

UpdateNodeStatusStep(nodeId, status) ==
  /\ nodeStatuses' = updateNodeStatus(nodeStatuses, nodeId, status)
  /\ UNCHANGED <<nodes, edges, selectedNodeId, selectedEdgeId, simulation,
                 currentProject, projects, reactFlowNodes, reactFlowEdges,
                 mounted, now, serializer, simulationWebSocket>>
  /\ Render

UpdateNodeStatus ==
  \E nodeId \in NodeIdInputs, status \in StatusInputs :
    UpdateNodeStatusStep(nodeId, status)

\* A frame of the socket: event.data.  parses is FALSE for a text that
\* JSON.parse rejects; hasData is FALSE for a message without `data`;
\* componentId is null and status is NoData when data does not have them.
Message(type, hasData, componentId, componentType, status) ==
  [parses |-> TRUE, type |-> type, hasData |-> hasData, componentId |-> componentId,
   componentType |-> componentType, status |-> status]

Unparsable ==
  [parses |-> FALSE, type |-> NoData, hasData |-> FALSE, componentId |-> null,
   componentType |-> NoData, status |-> NoData]

MessageTypes ==
  {"simulation_started", "simulation_stopped", "simulation_event",
   "simulation_metric", "error", "heartbeat"}

\* Every type with and without data; the fields of data vary for the types
\* whose case reads them: component_id for an event (the handler copies it
\* and looks nothing up, so one id stands for all), and component_id,
\* component_type and status for a metric.
MessageInputs ==
  {Unparsable} \cup
  { Message(type, hasData, null, "node", NoData) :
      type \in MessageTypes, hasData \in BOOLEAN } \cup
  { Message("simulation_event", TRUE, <<"node", 1>>, "node", NoData) } \cup
  { Message("simulation_metric", TRUE, componentId, componentType, status) :
      componentId \in NodeIdInputs \cup {null},
      componentType \in {"node", "edge"},
      status \in {NoData, "warning"} }

\* whether handleSimulationMessage throws: the cases that read a field of
\* message.data, on a message without data
handlerThrows(message) ==
  /\ ~message.hasData
  /\ message.type \in {"simulation_event", "simulation_metric", "error"}

\* a metric case that does not look at component_type
metricMessageAnyComponent(statuses, message) ==
  IF message.componentId # null
  THEN updateNodeStatus(statuses, message.componentId,
                        [status |-> IF message.status = NoData THEN "active"
                                    ELSE message.status])
  ELSE statuses

\* case 'simulation_metric' (the metrics of the status are left out)
metricMessage(statuses, message) ==
  IF message.componentId # null /\ message.componentType = "node"
  THEN updateNodeStatus(statuses, message.componentId,
                        [status |-> IF message.status = NoData THEN "active"
                                    ELSE message.status])
  ELSE statuses

\* handleSimulationMessage(message): what it leaves in simulation
handledSimulation(sim, message, t) ==
  CASE message.type = "simulation_started" -> startSimulation(sim)
    [] message.type = "simulation_stopped" -> stopSimulation(sim)
    [] message.type = "simulation_event" ->
         simulationEventMessage(sim, message.componentId, t)
    [] OTHER -> sim

\* handleSimulationMessage(message): what it leaves in nodeStatuses
handledStatuses(statuses, message) ==
  IF message.type = "simulation_metric" THEN metricMessage(statuses, message)
  ELSE statuses

\* whether the handler reads Date.now() and adds an event
addsEvent(message) ==
  message.parses /\ message.type = "simulation_event" /\ message.hasData

\* ws.onmessage: JSON.parse, then every message handler, inside try / catch
OnMessageStep(message) ==
  /\ UNCHANGED <<nodes, edges, selectedNodeId, selectedEdgeId, currentProject,
                 projects, reactFlowNodes, reactFlowEdges, mounted, serializer, simulationWebSocket>>
  /\ IF message.parses /\ ~handlerThrows(message)
     THEN /\ simulation' = handledSimulation(simulation, message, now)
          /\ nodeStatuses' = handledStatuses(nodeStatuses, message)
     ELSE UNCHANGED <<simulation, nodeStatuses>>
  /\ IF addsEvent(message)
     THEN ClockLeft /\ Len(simulation.events) < MaxEvents /\ now' = now + 1
     ELSE now' = now
  /\ Render

OnMessage == \E message \in MessageInputs : OnMessageStep(message)

---------------------------------------------------------------------------
(* SimulationWebSocketClient: connect, disconnect and the socket's events *)

\* connect(sessionId): this.sessionId = sessionId; this.ws = new WebSocket(wsUrl)
connect(client, sessionId) ==
  [client EXCEPT !.sessionId = sessionId,
                 !.sockets = Append(@, "connecting"),
                 !.ws = Len(client.sockets) + 1]

\* ws.onopen
onopen(client) == [client EXCEPT !.currentAttempts = 0]

\* attemptReconnect(): the attempt is counted and the timer set
attemptReconnect(client) ==
  IF client.currentAttempts >= reconnectAttempts \/ client.sessionId = null
  THEN client
  ELSE [client EXCEPT !.currentAttempts = @ + 1, !.reconnectTimers = @ + 1]

\* ws.onclose(event) with event.code = code
onclose(client, code) ==
  IF code # 1000 /\ client.currentAttempts < reconnectAttempts
  THEN attemptReconnect(client)
  ELSE client

\* ws.close(1000, ...): a socket that is connecting or open starts closing
\* (its close event comes later, with code 1000); any other is left as it is
close(socket) == IF socket \in {"connecting", "open"} THEN "closing" ELSE socket

\* disconnect()
disconnect(client) ==
  IF client.ws # 0
  THEN [client EXCEPT !.sockets[client.ws] = close(@), !.ws = 0]
  ELSE client

\* the callback handed to setTimeout by attemptReconnect
reconnectTimer(client) ==
  IF client.sessionId # null THEN connect(client, client.sessionId) ELSE client

SessionIdInputs == {<<"session", 1>>}

\* Codes of a close that the other side or the network brings about.
CloseCodes == {1000, 1006}

SocketUnchanged ==
  UNCHANGED <<nodes, edges, selectedNodeId, selectedEdgeId, nodeStatuses, simulation,
              currentProject, projects, reactFlowNodes, reactFlowEdges, mounted,
              timers, now, serializer>>

\* connect(sessionId) called by a user of the client
Connect ==
  \E sessionId \in SessionIdInputs :
    /\ Len(simulationWebSocket.sockets) < MaxSockets
    /\ simulationWebSocket' = connect(simulationWebSocket, sessionId)
    /\ SocketUnchanged

\* a connecting socket opens: onopen
SocketOpens ==
  \E i \in DOMAIN simulationWebSocket.sockets :
    /\ simulationWebSocket.sockets[i] = "connecting"
    /\ simulationWebSocket' =
         onopen([simulationWebSocket EXCEPT !.sockets[i] = "open"])
    /\ SocketUnchanged

\* a socket is closed from outside (the connection fails, the server closes
\* it): onclose with the code; a normal closure is of an open socket
SocketClosesStep(i, code) ==
  /\ simulationWebSocket.sockets[i] \in {"connecting", "open"}
  /\ code = 1000 => simulationWebSocket.sockets[i] = "open"
  /\ simulationWebSocket' =
       onclose([simulationWebSocket EXCEPT !.sockets[i] = "closed"], code)
  /\ SocketUnchanged

SocketCloses ==
  \E i \in DOMAIN simulationWebSocket.sockets, code \in CloseCodes :
    SocketClosesStep(i, code)

\* the close event of a socket closed by disconnect(): onclose with code 1000
CloseEventStep(i) ==
  /\ simulationWebSocket.sockets[i] = "closing"
  /\ simulationWebSocket' =
       onclose([simulationWebSocket EXCEPT !.sockets[i] = "closed"], 1000)
  /\ SocketUnchanged

CloseEvent == \E i \in DOMAIN simulationWebSocket.sockets : CloseEventStep(i)

\* disconnect() called by a user of the client
Disconnect ==
  /\ simulationWebSocket' = disconnect(simulationWebSocket)
  /\ SocketUnchanged

\* a pending reconnect timer fires
ReconnectTimerFires ==
  /\ simulationWebSocket.reconnectTimers > 0
  /\ Len(simulationWebSocket.sockets) < MaxSockets
  /\ simulationWebSocket' =
       reconnectTimer([simulationWebSocket EXCEPT !.reconnectTimers = @ - 1])
  /\ SocketUnchanged

---------------------------------------------------------------------------
(* The layout toolbar: layout operations on a placed node list *)

\* Where the canvas may have left a node: dragged to one of three spots,
\* selected or not, measured by the surface or not.
Placements ==
  { [position |-> Pos(0, 240), selected |-> TRUE, measured |-> Unmeasured],
    [position |-> Pos(120, 0), selected |-> TRUE, measured |-> Measured(120, 60)],
    [position |-> Pos(300, 60), selected |-> TRUE, measured |-> Unmeasured],
    [position |-> Pos(300, 60), selected |-> FALSE, measured |-> Measured(120, 60)],
    [position |-> Pos(0, 240), selected |-> FALSE, measured |-> Unmeasured] }

Placed(i, placement) ==
  [Node(<<"node", i>>, "service", TRUE, <<>>) EXCEPT
     !.position = placement.position,
     !.selected = placement.selected,
     !.measured = placement.measured]

\* The placements of the nodes after the first MaxPlaced of a list.
RestPlacements ==
  { [position |-> Pos(300, 60), selected |-> TRUE, measured |-> Unmeasured],
    [position |-> Pos(0, 240), selected |-> FALSE, measured |-> Unmeasured] }

PlacementsAt(i) == IF i <= MaxPlaced THEN Placements ELSE RestPlacements

LayoutNodeLists ==
  UNION { { [i \in 1..n |-> Placed(i, f[i])] :
            f \in {g \in [1..n -> Placements] : \A i \in 1..n : g[i] \in PlacementsAt(i)} } :
          n \in 0..MaxLayoutNodes }

\* The page mounted over a store that holds a placed node list.
LayoutInit ==
  /\ nodes \in LayoutNodeLists
  /\ edges = <<>>
  /\ selectedNodeId = null
  /\ selectedEdgeId = null
  /\ nodeStatuses = EmptyStatuses
  /\ simulation = [isRunning |-> FALSE, currentTime |-> 0, speed |-> 1,
                   progress |-> 0, duration |-> DefaultDuration,
                   events |-> <<>>, snapshots |-> <<>>]
  /\ currentProject = DefaultProject
  /\ projects = <<DefaultProject>>
  /\ reactFlowNodes = nodes
  /\ reactFlowEdges = <<>>
  /\ mounted = TRUE
  /\ timers = <<>>
  /\ now = Epoch
  /\ serializer = NothingSerialized
  /\ simulationWebSocket = Constructed

\* The layout calls are modelled on a node list as the surface left it: one
\* call per list, the next call on the list of another initial state.
AsPlaced == nodes = reactFlowNodes

LayoutUnchanged ==
  UNCHANGED <<edges, selectedNodeId, selectedEdgeId, nodeStatuses, simulation,
              currentProject, projects, reactFlowNodes, reactFlowEdges, mounted, now, serializer, simulationWebSocket>>

AutoLayoutNodes ==
  /\ AsPlaced
  /\ autoLayoutNodes
  /\ LayoutUnchanged
  /\ Render

Alignments == {"left", "right", "top", "bottom", "center"}

\* whether the mean of alignNodes('center') is a whole number
MeanIsWhole(alignment) ==
  LET selected == selectedNodes(nodes) IN
  (alignment = "center" /\ Len(selected) >= 2) => IsWhole(sumX(selected), Len(selected))

AlignNodesStep(alignment) ==
  /\ AsPlaced
  /\ MeanIsWhole(alignment)
  /\ alignNodes(alignment)
  /\ LayoutUnchanged
  /\ Render

AlignNodes == \E alignment \in Alignments : AlignNodesStep(alignment)

Directions == {"horizontal", "vertical"}

\* whether the spacing of distributeNodes is a whole number
SpacingIsWhole(direction) ==
  LET sorted == sortByCoordinate(selectedNodes(nodes), direction) IN
  Len(sorted) >= 3 => IsWhole(totalSpace(sorted, direction), Len(sorted) - 1)

DistributeNodesStep(direction) ==
  /\ AsPlaced
  /\ SpacingIsWhole(direction)
  /\ distributeNodes(direction)
  /\ LayoutUnchanged
  /\ Render

DistributeNodes == \E direction \in Directions : DistributeNodesStep(direction)

---------------------------------------------------------------------------
(* designSerializer: serializeDesign, deserializeDesign, validateDesignData *)

\* a conversion that takes the property array for an object without keys
propertiesToRecordEmpty(node) == EmptyRecord

\* node.data.properties.reduce((acc, prop) => { acc[prop.id] = prop.value;
\* return acc }, {}): of two properties with one id the later one stays
RECURSIVE reduceProperties(_, _)
reduceProperties(properties, acc) ==
  IF properties = <<>>
  THEN acc
  ELSE reduceProperties(
         Tail(properties),
         [id \in DOMAIN acc \cup {Head(properties).id} |->
            IF id = Head(properties).id THEN Head(properties).value ELSE acc[id]])

\* Array.isArray(node.data?.properties) ? reduce : node.data?.properties || {}
propertiesToRecord(node) ==
  IF node.hasProperties THEN reduceProperties(node.properties, EmptyRecord)
  ELSE EmptyRecord

serializedNode(node) ==
  NodeElement(Some(node.id), Some(node.position), propertiesToRecord(node))

\* edge.data?.protocol || 'HTTP'; the status, like every other key of
\* edge.data, is kept
serializedEdge(edge) ==
  EdgeElement(Some(edge.id), Some(edge.source), Some(edge.target),
              IF edge.hasData /\ edge.protocol # NoData THEN edge.protocol ELSE "HTTP",
              IF edge.hasData THEN edge.status ELSE NoData)

\* serializeDesign(nodes, edges, viewport); the metadata (two timestamps and
\* the canvas size) is left out
serializeDesign(ns, es, viewport) ==
  Document(JsString,
           Array([i \in DOMAIN ns |-> serializedNode(ns[i])]),
           Array([i \in DOMAIN es |-> serializedEdge(es[i])]),
           Object(viewport))

\* value || fallback
OrElse(value, fallback) == IF IsFalsy(value) THEN fallback ELSE value

\* deserializeDesign(designData)
deserializeDesign(designData) ==
  IF designData.isNull
  THEN EmptyGraph
  ELSE IF ~IsFalsy(designData.version)
       THEN \* the log line reads serialized.nodes.length and
            \* serialized.edges.length; a TypeError goes to the catch
            IF LengthThrows(designData.nodes) \/ LengthThrows(designData.edges)
            THEN EmptyGraph
            ELSE Graph(OrElse(designData.nodes, Array(<<>>)),
                       OrElse(designData.edges, Array(<<>>)),
                       OrElse(designData.viewport, Object(DefaultViewport)))
       ELSE Graph(IF IsArray(designData.nodes) THEN designData.nodes ELSE Array(<<>>),
                  IF IsArray(designData.edges) THEN designData.edges ELSE Array(<<>>),
                  OrElse(designData.viewport, Object(DefaultViewport)))

\* The error messages, by what they name.
Required == <<"Design data is required">>

NodesNotArray == <<"Nodes must be an array">>

EdgesNotArray == <<"Edges must be an array">>

NodeMissing(index, fieldName) == <<"Node", index, fieldName>>

EdgeMissing(index, fieldName) == <<"Edge", index, fieldName>>

Unexpected == <<"Validation failed due to unexpected error">>

\* The run of a forEach: the errors pushed, and whether it threw.
Run(errors, threw) == [errors |-> errors, threw |-> threw]

\* one call of the nodes.forEach callback
validateNode(node, index) ==
  IF node.isNull
  THEN Run(<<>>, TRUE)
  ELSE Run((IF node.id = Missing THEN <<NodeMissing(index, "id")>> ELSE <<>>)
           \o (IF node.position = Missing THEN <<NodeMissing(index, "position")>>
               ELSE <<>>),
           FALSE)

\* one call of the edges.forEach callback
validateEdge(edge, index) ==
  IF edge.isNull
  THEN Run(<<>>, TRUE)
  ELSE Run((IF edge.id = Missing THEN <<EdgeMissing(index, "id")>> ELSE <<>>)
           \o (IF edge.source = Missing THEN <<EdgeMissing(index, "source")>> ELSE <<>>)
           \o (IF edge.target = Missing THEN <<EdgeMissing(index, "target")>> ELSE <<>>),
           FALSE)

\* items.forEach(callback) from index `index` on: it stops where a call throws
RECURSIVE forEach(_, _, _)
forEach(items, index, isNodes) ==
  IF items = <<>>
  THEN Run(<<>>, FALSE)
  ELSE LET first == IF isNodes THEN validateNode(Head(items), index)
                    ELSE validateEdge(Head(items), index)
       IN IF first.threw
          THEN first
          ELSE LET rest == forEach(Tail(items), index + 1, isNodes)
               IN Run(first.errors \o rest.errors, rest.threw)

\* the block of one collection: not an array, or each of its elements
validateCollection(value, isNodes) ==
  IF ~IsFalsy(value) /\ ~IsArray(value)
  THEN Run(<<IF isNodes THEN NodesNotArray ELSE EdgesNotArray>>, FALSE)
  ELSE IF ~IsFalsy(value)
       THEN forEach(value.items, 0, isNodes)
       ELSE Run(<<>>, FALSE)

\* validateDesignData(designData)
validateDesignData(designData) ==
  IF designData.isNull
  THEN [isValid |-> FALSE, errors |-> <<Required>>]
  ELSE LET ofNodes == validateCollection(designData.nodes, TRUE)
           ofEdges == validateCollection(designData.edges, FALSE)
       IN IF ofNodes.threw
          THEN [isValid |-> FALSE, errors |-> ofNodes.errors \o <<Unexpected>>]
          ELSE IF ofEdges.threw
               THEN [isValid |-> FALSE,
                     errors |-> ofNodes.errors \o ofEdges.errors \o <<Unexpected>>]
               ELSE [isValid |-> ofNodes.errors \o ofEdges.errors = <<>>,
                     errors |-> ofNodes.errors \o ofEdges.errors]

\* A dropped load balancer with its name edited and its position moved.
EditedNode ==
  [updateNode(newNode("load-balancer", Epoch), <<"load-balancer", Epoch>>,
              "name", "test-value") EXCEPT !.position = Pos(120, 0)]

\* An edge as onConnect makes it.
ConnectedEdge(source, target, t) == newEdge([source |-> source, target |-> target], t)

\* Graphs the store can hold: nothing; a dropped load balancer connected to
\* itself; an edited load balancer next to a node without a property list,
\* with an edge that a tick has written and an edge as onConnect made it.
GraphInputs ==
  { [nodes |-> <<>>, edges |-> <<>>],
    [nodes |-> << newNode("load-balancer", Epoch) >>,
     edges |-> << ConnectedEdge(<<"load-balancer", Epoch>>, <<"load-balancer", Epoch>>,
                                Epoch + 1) >>],
    [nodes |-> << EditedNode, Node(<<"node", 1>>, "service", FALSE, <<>>) >>,
     edges |-> << tickEdge(ConnectedEdge(<<"load-balancer", Epoch>>, <<"node", 1>>,
                                         Epoch + 1),
                           [status |-> "active", number |-> 7]),
                  ConnectedEdge(<<"node", 1>>, <<"node", 1>>, Epoch + 2) >>] }

ViewportInputs == {DefaultViewport, [x |-> 10, y |-> 20, zoom |-> 2]}

GoodNode(i) == NodeElement(Some(<<"node", i>>), Some(Pos(100, 100)), EmptyRecord)

GoodEdge(i) ==
  EdgeElement(Some(<<"edge", i>>), Some(<<"node", 1>>), Some(<<"node", 2>>), "HTTP", NoData)

\* Documents handed to deserializeDesign (designData: any): it looks at the
\* fields, not into the elements.
DeserializeInputs ==
  {NullDocument} \cup
  { Document(version, ns, es, viewport) :
      version \in {JsString, Undefined},
      ns \in {Undefined, JsNull, JsString, Array(<< GoodNode(1) >>)},
      es \in {Undefined, JsString, Array(<< GoodEdge(1) >>)},
      viewport \in {Undefined, Object([x |-> 10, y |-> 20, zoom |-> 2])} }

\* The `nodes` field of a document handed to validateDesignData.
NodesFieldInputs ==
  { Undefined, JsNull, JsString,
    Array(<< GoodNode(1) >>),
    Array(<< GoodNode(1), NodeElement(Some(<<"node", 2>>), Missing, EmptyRecord) >>),
    Array(<< NodeElement(Missing, Missing, EmptyRecord), GoodNode(2) >>),
    Array(<< NullElement, GoodNode(2) >>) }

\* The `edges` field of a document handed to validateDesignData.
EdgesFieldInputs ==
  { Undefined, JsString,
    Array(<< GoodEdge(1) >>),
    Array(<< EdgeElement(Some(<<"edge", 1>>), Some(<<"node", 1>>), Missing, "HTTP", NoData),
             EdgeElement(Missing, Missing, Some(<<"node", 2>>), "HTTP", NoData) >>) }

\* Documents handed to validateDesignData (designData: any): it looks at the
\* two collections only.
ValidateInputs ==
  {NullDocument} \cup
  { Document(JsString, ns, es, Undefined) :
      ns \in NodesFieldInputs, es \in EdgesFieldInputs }

\* A store that holds a graph, with nothing serialized yet.
SerializerInit ==
  /\ \E graph \in GraphInputs : nodes = graph.nodes /\ edges = graph.edges
  /\ selectedNodeId = null
  /\ selectedEdgeId = null
  /\ nodeStatuses = EmptyStatuses
  /\ simulation = [isRunning |-> FALSE, currentTime |-> 0, speed |-> 1,
                   progress |-> 0, duration |-> DefaultDuration,
                   events |-> <<>>, snapshots |-> <<>>]
  /\ currentProject = DefaultProject
  /\ projects = <<DefaultProject>>
  /\ reactFlowNodes = nodes
  /\ reactFlowEdges = edges
  /\ mounted = TRUE
  /\ timers = <<>>
  /\ now = Epoch
  /\ serializer = NothingSerialized
  /\ simulationWebSocket = Constructed

SerializerUnchanged ==
  UNCHANGED <<nodes, edges, selectedNodeId, selectedEdgeId, nodeStatuses, simulation,
              currentProject, projects, reactFlowNodes, reactFlowEdges, mounted,
              timers, now, simulationWebSocket>>

\* serializeDesign on the graph of the store
SerializeDesignStep(viewport) ==
  /\ serializer' = [serializer EXCEPT
                      !.designData = serializeDesign(nodes, edges, viewport)]
  /\ SerializerUnchanged

SerializeDesign == \E viewport \in ViewportInputs : SerializeDesignStep(viewport)

\* deserializeDesign on a document
DeserializeDesignStep(designData) ==
  /\ serializer' = [serializer EXCEPT !.loaded = deserializeDesign(designData)]
  /\ SerializerUnchanged

DeserializeDesign ==
  \E designData \in DeserializeInputs \cup {serializer.designData} :
    DeserializeDesignStep(designData)

\* validateDesignData on a document
ValidateDesignDataStep(designData) ==
  /\ serializer' = [serializer EXCEPT !.validation = validateDesignData(designData)]
  /\ SerializerUnchanged

ValidateDesignData ==
  \E designData \in ValidateInputs \cup {serializer.designData} :
    ValidateDesignDataStep(designData)

---------------------------------------------------------------------------
(* Specifications *)

Next ==
  \/ SetNodes
  \/ SetEdges
  \/ OnConnect
  \/ UpdateNodeProperty
  \/ HandleNodesChange
  \/ HandleEdgesChange
  \/ HandleConnect
  \/ OnDrop

Spec == Init /\ [][Next]_vars

CanvasNext ==
  \/ OnDrop
  \/ HandleConnect
  \/ HandleNodesChange
  \/ HandleEdgesChange
  \/ SelectNode
  \/ SelectEdge

CanvasSpec == Init /\ [][CanvasNext]_vars

SimNext ==
  \/ OnDrop
  \/ HandleConnect
  \/ StartSimulation
  \/ PauseSimulation
  \/ StopSimulation
  \/ SetSimulationSpeed
  \/ HandleEventClick
  \/ SimulationEventMessage
  \/ Tick
  \/ Unmount
  \/ Mount
  \/ CreateSnapshot
  \/ LoadSnapshot
  \/ CreateProject
  \/ LoadProject
  \/ SaveProject
  \/ HandleLoadProject
  \/ DeleteProject

SimSpec == Init /\ [][SimNext]_vars

LayoutNext ==
  \/ AutoLayoutNodes
  \/ AlignNodes
  \/ DistributeNodes

LayoutSpec == LayoutInit /\ [][LayoutNext]_vars

TickNext ==
  \/ StartSimulation
  \/ PauseSimulation
  \/ SetSimulationSpeed
  \/ Tick

TickSpec == TickInit /\ [][TickNext]_vars

BridgeNext ==
  \/ OnDrop
  \/ UpdateNodeStatus
  \/ OnMessage

BridgeSpec == Init /\ [][BridgeNext]_vars

SnapshotNext ==
  \/ SetNodes
  \/ StartSimulation
  \/ Tick
  \/ CreateSnapshotCall
  \/ LoadSnapshot
  \/ LoadProject

SnapshotSpec == Init /\ [][SnapshotNext]_vars

SocketNext ==
  \/ Connect
  \/ SocketOpens
  \/ SocketCloses
  \/ CloseEvent
  \/ Disconnect
  \/ ReconnectTimerFires

SocketSpec == Init /\ [][SocketNext]_vars

SerializerNext ==
  \/ SerializeDesign
  \/ DeserializeDesign
  \/ ValidateDesignData

SerializerSpec == SerializerInit /\ [][SerializerNext]_vars

---------------------------------------------------------------------------
(* Properties *)

IsKnown(id) == id \in Ids(nodes)

\* C1: in every reachable state each edge of the store has both its source
\* and its target among the ids of the store's nodes.
EdgeEndpointsExist ==
  \A i \in DOMAIN edges : IsKnown(edges[i].source) /\ IsKnown(edges[i].target)

\* C2: an onConnect call in which the source or the target is not the id of
\* a node of the store leaves the whole store as it was.
OnConnectUnknownEndpointIsNoOp ==
  [][\A s \in EndpointInputs, t \in EndpointInputs :
       (OnConnectStep(s, t) /\ (~IsKnown(s) \/ ~IsKnown(t)))
         => UNCHANGED storeVars]_vars

\* C3: an onConnect call between two nodes of the store appends exactly one
\* edge, from the source to the target, with data.status "idle" and
\* data.protocol "HTTP", and keeps the earlier edges as they were, in order.
OnConnectAppendsIdleHttpEdge ==
  [][\A s \in EndpointInputs, t \in EndpointInputs :
       (OnConnectStep(s, t) /\ IsKnown(s) /\ IsKnown(t))
         => /\ Len(edges') = Len(edges) + 1
            /\ SubSeq(edges', 1, Len(edges)) = edges
            /\ edges'[Len(edges')].source = s
            /\ edges'[Len(edges')].target = t
            /\ edges'[Len(edges')].hasData
            /\ edges'[Len(edges')].status = "idle"
            /\ edges'[Len(edges')].protocol = "HTTP"]_vars

\* C4: at most one of selectedNodeId and selectedEdgeId is set in any
\* reachable state; selectNode(x) leaves selectedNodeId = x and no edge
\* selected, selectEdge(y) leaves selectedEdgeId = y and no node selected.
SelectionExclusive ==
  /\ [](selectedNodeId = null \/ selectedEdgeId = null)
  /\ [][\A x \in NodeIdInputs \cup {null} :
          SelectNodeStep(x) => selectedNodeId' = x /\ selectedEdgeId' = null]_vars
  /\ [][\A y \in EdgeIdInputs \cup {null} :
          SelectEdgeStep(y) => selectedEdgeId' = y /\ selectedNodeId' = null]_vars

\* C4 witness: a node is selected while the store holds an edge that could
\* have been selected before it.
SelectionExclusiveWitness ==
  /\ selectedNodeId # null
  /\ selectedNodeId \in Ids(nodes)
  /\ selectedEdgeId = null
  /\ edges # <<>>

HasProperty(node, propertyId) ==
  node.hasProperties /\ \E k \in DOMAIN node.properties : node.properties[k].id = propertyId

DistinctPropertyIds(node) ==
  \A j, k \in DOMAIN node.properties :
    node.properties[j].id = node.properties[k].id => j = k

\* C5: updateNodeProperty on a node of the store that has the property changes
\* the value of that property and nothing else: the node list keeps its
\* length and ids, the node keeps the sequence of its property ids, its other
\* properties, the other nodes and the edges are as before; the property ids
\* of every node are pairwise distinct in every reachable state.
UpdateNodePropertyChangesOneValue ==
  /\ [](\A i \in DOMAIN nodes : DistinctPropertyIds(nodes[i]))
  /\ [][\A nodeId \in NodeIdInputs, propertyId \in PropertyIdInputs, value \in ValueInputs :
          (/\ UpdateNodePropertyStep(nodeId, propertyId, value)
           /\ \E i \in DOMAIN nodes :
                nodes[i].id = nodeId /\ HasProperty(nodes[i], propertyId))
            => /\ edges' = edges
               /\ DOMAIN nodes' = DOMAIN nodes
               /\ \A i \in DOMAIN nodes :
                    IF nodes[i].id = nodeId /\ HasProperty(nodes[i], propertyId)
                    THEN /\ nodes'[i].id = nodes[i].id
                         /\ nodes'[i].type = nodes[i].type
                         /\ nodes'[i].hasProperties
                         /\ IdSeq(nodes'[i].properties) = IdSeq(nodes[i].properties)
                         /\ \A k \in DOMAIN nodes[i].properties :
                              nodes'[i].properties[k] =
                                IF nodes[i].properties[k].id = propertyId
                                THEN Prop(propertyId, value)
                                ELSE nodes[i].properties[k]
                    ELSE nodes'[i] = nodes[i]]_vars

\* C5 witness: a node whose name has been edited while its other properties
\* still carry their defaults.
UpdateNodePropertyWitness ==
  \E i \in DOMAIN nodes :
    /\ nodes[i].hasProperties
    /\ Len(nodes[i].properties) > 1
    /\ nodes[i].properties[1] = Prop("name", "test-value")
    /\ nodes[i].properties[3] = getDefaultPropertiesForType(nodes[i].type)[3]

\* C6: updateNodeProperty with a node id that matches no node, or with a
\* property id that the matched node does not have (a node without a property
\* list included), leaves the whole store as it was.
UpdateNodePropertyUnknownIsNoOp ==
  [][\A nodeId \in NodeIdInputs, propertyId \in PropertyIdInputs, value \in ValueInputs :
       (/\ UpdateNodePropertyStep(nodeId, propertyId, value)
        /\ \A i \in DOMAIN nodes :
             nodes[i].id = nodeId => ~HasProperty(nodes[i], propertyId))
         => UNCHANGED storeVars]_vars

GraphUnchanged == UNCHANGED <<nodes, edges, nodeStatuses>>

\* C7: pauseSimulation and stopSimulation leave isRunning false; stop also
\* leaves currentTime = 0 and progress = 0, pause keeps currentTime; both keep
\* speed, duration, events, snapshots, nodes, edges and nodeStatuses;
\* startSimulation changes nothing but isRunning, which it leaves true.
StartPauseStopFrame ==
  /\ [][StartSimulation =>
          /\ simulation' = [simulation EXCEPT !.isRunning = TRUE]
          /\ GraphUnchanged]_vars
  /\ [][PauseSimulation =>
          /\ ~simulation'.isRunning
          /\ simulation'.currentTime = simulation.currentTime
          /\ simulation'.speed = simulation.speed
          /\ simulation'.duration = simulation.duration
          /\ simulation'.events = simulation.events
          /\ simulation'.snapshots = simulation.snapshots
          /\ GraphUnchanged]_vars
  /\ [][StopSimulation =>
          /\ ~simulation'.isRunning
          /\ simulation'.currentTime = 0
          /\ simulation'.progress = 0
          /\ simulation'.speed = simulation.speed
          /\ simulation'.duration = simulation.duration
          /\ simulation'.events = simulation.events
          /\ simulation'.snapshots = simulation.snapshots
          /\ GraphUnchanged]_vars

TickHasRun ==
  /\ DOMAIN nodeStatuses # {}
  /\ \E i \in DOMAIN simulation.events :
       simulation.events[i].type \in {"warning", "error"}

\* C7 witness: the simulation is paused after a tick, the clock where the tick
\* left it and the tick's event and statuses kept.
StartPauseStopWitness ==
  /\ ~simulation.isRunning
  /\ simulation.currentTime > 0
  /\ simulation.currentTime < simulation.duration
  /\ TickHasRun

\* C8: an interval of the engine is armed only while the simulation is running
\* and the page is mounted, and never more than one: once stopSimulation or
\* pauseSimulation has run, or the page is torn down, no tick can fire.
NoTimerUnlessRunning ==
  /\ Len(timers) <= 1
  /\ (timers # <<>> => simulation.isRunning /\ mounted)

\* C8 witness: the simulation was stopped after a tick and the page is still
\* mounted, with no interval left armed.
NoTimerUnlessRunningWitness ==
  /\ ~simulation.isRunning
  /\ simulation.currentTime = 0
  /\ mounted
  /\ timers = <<>>
  /\ TickHasRun

\* C9: while the simulation is running, 0 <= currentTime <= duration.
RunningClockWithinDuration ==
  simulation.isRunning =>
    0 <= simulation.currentTime /\ simulation.currentTime <= simulation.duration

CurrentProjectId(p) == IF p = null THEN null ELSE p.id

\* C10: a step that changes which project is current leaves nodes, edges,
\* nodeStatuses, events and snapshots empty, currentTime = 0, the simulation
\* not running and no interval armed; loadProject with an unknown id changes
\* nothing.
ProjectSwitchDiscardsState ==
  [][/\ CurrentProjectId(currentProject') # CurrentProjectId(currentProject)
        => /\ nodes' = <<>>
           /\ edges' = <<>>
           /\ DOMAIN nodeStatuses' = {}
           /\ simulation'.events = <<>>
           /\ simulation'.snapshots = <<>>
           /\ simulation'.currentTime = 0
           /\ ~simulation'.isRunning
           /\ timers' = <<>>
     /\ \A projectId \in ProjectIdInputs \ Ids(projects) :
          (loadProject(projects, currentProject, projectId) /\ projects' = projects)
            => UNCHANGED storeVars]_vars

OtherThanNodesUnchanged ==
  UNCHANGED <<edges, selectedNodeId, selectedEdgeId, nodeStatuses, simulation,
              currentProject, projects>>

\* C11: autoLayoutNodes puts the node at list index i (from 0) at
\* (50 + 250*(i mod 4), 50 + 150*(i div 4)) and changes nothing else of the
\* node, of the list order or of the rest of the store; a second call right
\* after it changes nothing, and no two nodes share a position afterwards.
AutoLayoutIsFixedGrid ==
  [][AutoLayoutNodes =>
       /\ DOMAIN nodes' = DOMAIN nodes
       /\ \A i \in DOMAIN nodes :
            nodes'[i] = [nodes[i] EXCEPT
                           !.position = Pos(50 + 250 * ((i - 1) % 4),
                                            50 + 150 * ((i - 1) \div 4))]
       /\ autoLayout(nodes') = nodes'
       /\ \A i, j \in DOMAIN nodes' :
            nodes'[i].position = nodes'[j].position => i = j
       /\ OtherThanNodesUnchanged]_vars

\* C11 witness: a list of five nodes laid out, the fifth at the start of the
\* second row.
AutoLayoutWitness ==
  /\ Len(nodes) >= 5
  /\ nodes[4].position = Pos(800, 50)
  /\ nodes[5].position = Pos(50, 200)

SelectedIndices == {i \in DOMAIN nodes : nodes[i].selected}

RightEdge(node) == node.position.x + (IF node.measured.width = 0 THEN 200 ELSE node.measured.width)

BottomEdge(node) == node.position.y + (IF node.measured.height = 0 THEN 100 ELSE node.measured.height)

MinOf(S) == CHOOSE v \in S : \A w \in S : v <= w

MaxOf(S) == CHOOSE v \in S : \A w \in S : v >= w

\* the sum of the x of the nodes with an index in S
RECURSIVE SumOfX(_)
SumOfX(S) ==
  IF S = {} THEN 0
  ELSE LET i == CHOOSE k \in S : TRUE IN nodes[i].position.x + SumOfX(S \ {i})

\* C12: alignNodes(a) with two or more selected nodes puts every selected
\* node on one reference: left / top on the least x / y among them, right /
\* bottom with the right / bottom edge on the greatest such edge among them
\* (width 200, height 100 when unmeasured), center with x on the mean x; the
\* other coordinate of a selected node, every field but the position, every
\* unselected node and the rest of the store are unchanged; with fewer than
\* two selected nodes nothing changes.
AlignSnapsSelectedNodes ==
  [][\A a \in Alignments :
       AlignNodesStep(a) =>
         /\ OtherThanNodesUnchanged
         /\ DOMAIN nodes' = DOMAIN nodes
         /\ IF Cardinality(SelectedIndices) < 2
            THEN nodes' = nodes
            ELSE \A i \in DOMAIN nodes :
                   IF ~nodes[i].selected
                   THEN nodes'[i] = nodes[i]
                   ELSE /\ [nodes'[i] EXCEPT !.position = nodes[i].position] = nodes[i]
                        /\ a \in {"left", "right", "center"} =>
                             nodes'[i].position.y = nodes[i].position.y
                        /\ a \in {"top", "bottom"} =>
                             nodes'[i].position.x = nodes[i].position.x
                        /\ a = "left" =>
                             nodes'[i].position.x =
                               MinOf({nodes[k].position.x : k \in SelectedIndices})
                        /\ a = "top" =>
                             nodes'[i].position.y =
                               MinOf({nodes[k].position.y : k \in SelectedIndices})
                        /\ a = "right" =>
                             RightEdge(nodes'[i]) =
                               MaxOf({RightEdge(nodes[k]) : k \in SelectedIndices})
                        /\ a = "bottom" =>
                             BottomEdge(nodes'[i]) =
                               MaxOf({BottomEdge(nodes[k]) : k \in SelectedIndices})
                        /\ a = "center" =>
                             nodes'[i].position.x * Cardinality(SelectedIndices) =
                               SumOfX(SelectedIndices)]_vars

\* C12 witness: two selected nodes of different width with their right edges
\* on one line, next to an unselected node.
AlignWitness ==
  \E i, j \in DOMAIN nodes :
    /\ nodes[i].selected /\ nodes[j].selected
    /\ nodes[i].measured # nodes[j].measured
    /\ nodes[i].position.x # nodes[j].position.x
    /\ RightEdge(nodes[i]) = RightEdge(nodes[j])
    /\ \E k \in DOMAIN nodes : ~nodes[k].selected

Coordinate(node, direction) ==
  IF direction = "horizontal" THEN node.position.x ELSE node.position.y

\* the rank (from 0) of selected node i among the selected nodes ordered by
\* their coordinate, nodes of equal coordinate in list order
Rank(i, direction) ==
  Cardinality({k \in SelectedIndices :
                 \/ Coordinate(nodes[k], direction) < Coordinate(nodes[i], direction)
                 \/ /\ Coordinate(nodes[k], direction) = Coordinate(nodes[i], direction)
                    /\ k < i})

\* C13: distributeNodes(axis) with k >= 3 selected nodes leaves the selected
\* nodes of the least and of the greatest coordinate where they are and puts
\* the selected node of rank i at first + i*(last - first)/(k - 1) on the
\* axis; the other coordinate, every field but the position, every unselected
\* node and the rest of the store are unchanged; with fewer than three
\* selected nodes nothing changes.
DistributeSpacesSelectedNodes ==
  [][\A d \in Directions :
       DistributeNodesStep(d) =>
         LET k == Cardinality(SelectedIndices)
             first == MinOf({Coordinate(nodes[i], d) : i \in SelectedIndices})
             last == MaxOf({Coordinate(nodes[i], d) : i \in SelectedIndices})
         IN /\ OtherThanNodesUnchanged
            /\ DOMAIN nodes' = DOMAIN nodes
            /\ IF k < 3
               THEN nodes' = nodes
               ELSE \A i \in DOMAIN nodes :
                      IF ~nodes[i].selected
                      THEN nodes'[i] = nodes[i]
                      ELSE /\ [nodes'[i] EXCEPT !.position = nodes[i].position] = nodes[i]
                           /\ Coordinate(nodes'[i], IF d = "horizontal" THEN "vertical"
                                                     ELSE "horizontal")
                                = Coordinate(nodes[i], IF d = "horizontal" THEN "vertical"
                                                       ELSE "horizontal")
                           /\ Rank(i, d) \in {0, k - 1} => nodes'[i] = nodes[i]
                           /\ Coordinate(nodes'[i], d) * (k - 1) =
                                first * (k - 1) + Rank(i, d) * (last - first)]_vars

\* C13 witness: three selected nodes, out of order in the list, spaced
\* equally along x with the middle one moved between the outer two.
DistributeWitness ==
  \E i, j, m \in DOMAIN nodes :
    /\ i < j /\ j < m
    /\ nodes[i].selected /\ nodes[j].selected /\ nodes[m].selected
    /\ nodes[i].position.x = 150
    /\ nodes[j].position.x = 300
    /\ nodes[m].position.x = 0
    /\ \E k \in DOMAIN nodes : ~nodes[k].selected

\* the value of property `propertyId` of a node of the store
ValueOf(node, propertyId) ==
  node.properties[CHOOSE k \in DOMAIN node.properties :
                    node.properties[k].id = propertyId].value

PropertyIds(node) ==
  IF node.hasProperties THEN {node.properties[k].id : k \in DOMAIN node.properties}
  ELSE {}

\* C14: deserializeDesign(serializeDesign(G)) has the node ids of G in order,
\* the node positions of G, for every node the property ids of G each with
\* the value it has in G, the edge ids of G in order each with its source and
\* target, and the viewport of G.
RoundTripKeepsGraph ==
  [][\A viewport \in ViewportInputs :
       DeserializeDesignStep(serializeDesign(nodes, edges, viewport)) =>
         LET loaded == serializer'.loaded IN
         /\ loaded.nodes.kind = "array"
         /\ DOMAIN loaded.nodes.items = DOMAIN nodes
         /\ \A i \in DOMAIN nodes :
              /\ loaded.nodes.items[i].id = <<nodes[i].id>>
              /\ loaded.nodes.items[i].position = <<nodes[i].position>>
              /\ DOMAIN loaded.nodes.items[i].properties = PropertyIds(nodes[i])
              /\ \A propertyId \in PropertyIds(nodes[i]) :
                   loaded.nodes.items[i].properties[propertyId] =
                     ValueOf(nodes[i], propertyId)
         /\ loaded.edges.kind = "array"
         /\ DOMAIN loaded.edges.items = DOMAIN edges
         /\ \A i \in DOMAIN edges :
              /\ loaded.edges.items[i].id = <<edges[i].id>>
              /\ loaded.edges.items[i].source = <<edges[i].source>>
              /\ loaded.edges.items[i].target = <<edges[i].target>>
         /\ loaded.viewport = Object(viewport)]_vars

\* C14 witness: a graph with an edited property, a moved node and two edges
\* has been serialized and read back.
RoundTripWitness ==
  /\ ~serializer.designData.isNull
  /\ serializer.loaded.nodes = serializer.designData.nodes
  /\ Len(serializer.loaded.nodes.items) = 2
  /\ serializer.loaded.nodes.items[1].properties["name"] = "test-value"
  /\ serializer.loaded.nodes.items[1].position = <<Pos(120, 0)>>
  /\ Len(serializer.loaded.edges.items) = 2
  /\ Len(nodes) = 2

\* whether an element of a collection lacks the field
Lacks(element, fieldName) ==
  \/ element.isNull
  \/ ~element.isNull /\ element[fieldName] = Missing

\* the structural violations of a collection, each as the message that
\* names it
CollectionViolations(value, isNodes) ==
  IF value.kind = "undefined"
  THEN {}
  ELSE IF value.kind # "array"
       THEN {IF isNodes THEN NodesNotArray ELSE EdgesNotArray}
       ELSE { <<IF isNodes THEN "Node" ELSE "Edge", i - 1, fieldName>> :
                <<i, fieldName>> \in
                  { pair \in (DOMAIN value.items) \X
                              (IF isNodes THEN {"id", "position"}
                               ELSE {"id", "source", "target"}) :
                      Lacks(value.items[pair[1]], pair[2]) } }

Violations(designData) ==
  IF designData.isNull
  THEN {Required}
  ELSE CollectionViolations(designData.nodes, TRUE)
         \cup CollectionViolations(designData.edges, FALSE)

\* C15: validateDesignData returns, for every document, one message per
\* structural violation and no other message (document null; `nodes` present
\* and not an array; a node without id; a node without position; `edges`
\* present and not an array; an edge without id, source or target), whatever
\* the other elements and the other collection hold, and isValid exactly when
\* there is no violation.
ValidationReportsEveryViolation ==
  [][\A designData \in ValidateInputs :
       ValidateDesignDataStep(designData) =>
         LET result == serializer'.validation IN
         /\ {result.errors[i] : i \in DOMAIN result.errors} = Violations(designData)
         /\ Len(result.errors) = Cardinality(Violations(designData))
         /\ result.isValid <=> Violations(designData) = {}]_vars

\* the field, or its default when the document does not have it
FieldOr(value, default) == IF value.kind \in {"undefined", "null"} THEN default ELSE value

\* C16: deserializeDesign returns the empty graph with the default viewport
\* for a null document, and for a document with a version it returns the
\* document's nodes, edges and viewport, each replaced by its own default
\* (empty list, default viewport) when it is missing and passed through
\* unchanged when it is there.
DeserializeSubstitutesDefaults ==
  [][\A designData \in DeserializeInputs :
       DeserializeDesignStep(designData) =>
         /\ designData.isNull => serializer'.loaded = EmptyGraph
         /\ (~designData.isNull /\ designData.version.kind = "string") =>
              /\ serializer'.loaded.nodes = FieldOr(designData.nodes, Array(<<>>))
              /\ serializer'.loaded.edges = FieldOr(designData.edges, Array(<<>>))
              /\ serializer'.loaded.viewport =
                   FieldOr(designData.viewport, Object(DefaultViewport))]_vars

Placing(ns) == {[id |-> ns[i].id, position |-> ns[i].position] : i \in DOMAIN ns}

Wiring(es) ==
  {[id |-> es[i].id, source |-> es[i].source, target |-> es[i].target] : i \in DOMAIN es}

\* C17: after every canvas handler the store and the rendering surface hold
\* the same nodes (ids, positions) and the same edges (ids, endpoints).
StoreMatchesSurface ==
  /\ Placing(nodes) = Placing(reactFlowNodes)
  /\ Wiring(edges) = Wiring(reactFlowEdges)

\* C18: updateNodeStatus(id, s) leaves nodeStatuses[id] equal to s, whatever
\* the id and whatever entry it had, and every other entry of nodeStatuses
\* and the rest of the store as they were.
UpdateNodeStatusReplacesEntry ==
  [][\A nodeId \in NodeIdInputs, status \in StatusInputs :
       UpdateNodeStatusStep(nodeId, status) =>
         /\ DOMAIN nodeStatuses' = DOMAIN nodeStatuses \cup {nodeId}
         /\ nodeStatuses'[nodeId] = status
         /\ \A id \in DOMAIN nodeStatuses \ {nodeId} :
              nodeStatuses'[id] = nodeStatuses[id]
         /\ UNCHANGED <<nodes, edges, selectedNodeId, selectedEdgeId, simulation,
                        currentProject, projects>>]_vars

\* C18 witness: a dropped node and an id that names no node both have the
\* status of the last call, one without logs and one with.
UpdateNodeStatusWitness ==
  /\ nodes # <<>>
  /\ nodes[1].id \in DOMAIN nodeStatuses
  /\ nodeStatuses[nodes[1].id] = [status |-> "active"]
  /\ <<"node", 1>> \in DOMAIN nodeStatuses
  /\ nodeStatuses[<<"node", 1>>] = drawnStatus("error", Epoch)

\* the messages the bridge is to ignore
IsIgnored(message) ==
  /\ message.parses
  /\ \/ message.type \notin {"simulation_started", "simulation_stopped",
                               "simulation_event", "simulation_metric", "error"}
     \/ message.type = "error"
     \/ /\ message.type = "simulation_metric"
        /\ (message.componentType = "edge" \/ message.componentId = null)

\* C19: a message with an unrecognized type, an error message and a metric
\* message that names an edge or no component leave the store as it was; and
\* in every state, those states included, a started message leaves the
\* simulation running, a stopped message leaves it stopped at time 0, an
\* event message adds one event and a metric message for a node sets the
\* status of that node.
BridgeIgnoresAndGoesOn ==
  [][\A message \in MessageInputs :
       OnMessageStep(message) =>
         /\ IsIgnored(message) => UNCHANGED storeVars
         /\ message.type = "simulation_started" => simulation'.isRunning
         /\ message.type = "simulation_stopped" =>
              ~simulation'.isRunning /\ simulation'.currentTime = 0
         /\ (message.type = "simulation_event" /\ message.hasData) =>
              /\ Len(simulation'.events) = Len(simulation.events) + 1
              /\ SubSeq(simulation'.events, 1, Len(simulation.events)) = simulation.events
         /\ (/\ message.type = "simulation_metric" /\ message.hasData
             /\ message.componentType = "node" /\ message.componentId # null) =>
              /\ message.componentId \in DOMAIN nodeStatuses'
              /\ nodeStatuses'[message.componentId].status \in {"active", "warning"}]_vars

\* C19 witness: the bridge has started the simulation, added an event and
\* set the status of a dropped node.
BridgeWitness ==
  /\ simulation.isRunning
  /\ simulation.events # <<>>
  /\ nodes # <<>>
  /\ nodes[1].id \in DOMAIN nodeStatuses
  /\ nodeStatuses[nodes[1].id] = [status |-> "warning"]

\* C20: a tick of a running simulation sets currentTime to currentTime +
\* speed when that is below duration, and otherwise leaves the whole store as
\* it was; in both cases the simulation is still running afterwards, and a
\* clock that was below duration stays below it.
TickAdvancesOrFreezes ==
  [][Tick =>
       /\ simulation.isRunning
       /\ simulation'.isRunning
       /\ IF simulation.currentTime + simulation.speed < simulation.duration
          THEN simulation'.currentTime = simulation.currentTime + simulation.speed
          ELSE UNCHANGED storeVars
       /\ simulation.currentTime < simulation.duration =>
            simulation'.currentTime < simulation'.duration]_vars

\* C20 witness: a running simulation whose last tick wrote statuses and whose
\* next tick would reach the duration, its interval still armed.
TickFreezesWitness ==
  /\ simulation.isRunning
  /\ timers # <<>>
  /\ DOMAIN nodeStatuses # {}
  /\ simulation.currentTime < simulation.duration
  /\ simulation.currentTime + simulation.speed >= simulation.duration

\* a tick that got past the duration test
TickAdvances == Tick /\ simulation'.currentTime # simulation.currentTime

\* the nodes of ns, in list order, whose status in statuses is warning or error
RECURSIVE Alerted(_, _)
Alerted(ns, statuses) ==
  IF ns = <<>> THEN <<>>
  ELSE IF statuses[Head(ns).id].status \in {"warning", "error"}
       THEN <<Head(ns)>> \o Alerted(Tail(ns), statuses)
       ELSE Alerted(Tail(ns), statuses)

\* C21: a tick that advances the clock writes, for every node of the store,
\* a status among idle, active, warning and error, and appends one event for
\* each node whose status is warning or error and none for the others: the
\* events appended are, in node order, those nodes' ids with the tick's new
\* currentTime as time and the node's status as type.
TickWritesStatusesAndEvents ==
  [][TickAdvances =>
       /\ \A i \in DOMAIN nodes :
            /\ nodes[i].id \in DOMAIN nodeStatuses'
            /\ nodeStatuses'[nodes[i].id].status \in {"idle", "active", "warning", "error"}
       /\ LET alerted == Alerted(nodes, nodeStatuses')
              before == Len(simulation.events)
          IN /\ Len(simulation'.events) = before + Len(alerted)
             /\ SubSeq(simulation'.events, 1, before) = simulation.events
             /\ \A k \in DOMAIN alerted :
                  /\ simulation'.events[before + k].time = simulation'.currentTime
                  /\ simulation'.events[before + k].componentId = alerted[k].id
                  /\ simulation'.events[before + k].type =
                       nodeStatuses'[alerted[k].id].status]_vars

\* C21 witness: a tick over two nodes has left one of them at warning or
\* error with its event and the other at active or idle with none.
TickWritesWitness ==
  /\ Len(nodes) = 2
  /\ Ids(nodes) \subseteq DOMAIN nodeStatuses
  /\ Len(simulation.events) = 1
  /\ \E i, j \in DOMAIN nodes :
       /\ nodeStatuses[nodes[i].id].status \in {"warning", "error"}
       /\ nodeStatuses[nodes[j].id].status \in {"active", "idle"}
       /\ simulation.events[1].componentId = nodes[i].id
       /\ simulation.events[1].time = simulation.currentTime

\* the log list of a node before it has a status
LogsOf(statuses, id) == IF id \in DOMAIN statuses THEN statuses[id].logs ELSE <<>>

\* C22: a tick that advances the clock appends exactly one entry to the logs
\* of every node and keeps the entries that were there, in order.
TickAppendsOneLog ==
  [][TickAdvances =>
       \A i \in DOMAIN nodes :
         LET before == LogsOf(nodeStatuses, nodes[i].id)
             after == LogsOf(nodeStatuses', nodes[i].id)
         IN /\ Len(after) = Len(before) + 1
            /\ SubSeq(after, 1, Len(before)) = before]_vars

\* C23: after a tick that advances the clock every edge has a status among
\* idle, active, success and error, a throughput that is 0 unless the status
\* is active, an errorRate that is 0 unless the status is error, and the
\* protocol it had before the tick, or "HTTP" when it had none; the edges are
\* the same in number, ids, sources and targets.
TickWritesEdgeData ==
  [][TickAdvances =>
       /\ Len(edges') = Len(edges)
       /\ \A i \in DOMAIN edges :
            /\ edges'[i].id = edges[i].id
            /\ edges'[i].source = edges[i].source
            /\ edges'[i].target = edges[i].target
            /\ edges'[i].hasData
            /\ edges'[i].status \in {"idle", "active", "success", "error"}
            /\ edges'[i].throughput # <<0>> => edges'[i].status = "active"
            /\ edges'[i].errorRate # <<0>> => edges'[i].status = "error"
            /\ edges'[i].protocol =
                 IF edges[i].hasData /\ edges[i].protocol # NoData
                 THEN edges[i].protocol ELSE "HTTP"]_vars

\* C23 witness: a tick has left an edge that named a protocol active with a
\* throughput above 0, no error rate and that protocol.
TickWritesEdgeWitness ==
  /\ simulation.currentTime > 0
  /\ \E i \in DOMAIN edges :
       /\ edges[i].status = "active"
       /\ edges[i].throughput = <<7>>
       /\ edges[i].errorRate = <<0>>
       /\ edges[i].protocol = "gRPC"

\* C24: while the simulation is running, a tick, a click on an event marker
\* (setSimulationTime), loadSnapshot and setSimulationSpeed never leave
\* currentTime below what it was.
ClockMonotonicWhileRunning ==
  [][(/\ Tick \/ HandleEventClick \/ LoadSnapshot \/ SetSimulationSpeed
      /\ simulation.isRunning
      /\ simulation'.isRunning)
       => simulation'.currentTime >= simulation.currentTime]_vars

\* C25: createSnapshot stores the nodes, the edges and the currentTime of the
\* moment; loadSnapshot with the id of any stored snapshot leaves nodes, edges
\* and currentTime equal to what that snapshot stored; loadSnapshot with an
\* unknown id changes nothing; and a step that is not a project switch keeps
\* every stored snapshot as it was.
SnapshotsRestoreWhatTheyCaptured ==
  [][/\ CreateSnapshotCall =>
          LET snapshot == simulation'.snapshots[Len(simulation'.snapshots)] IN
          /\ snapshot.nodes = nodes
          /\ snapshot.edges = edges
          /\ snapshot.time = simulation.currentTime
     /\ \A i \in DOMAIN simulation.snapshots :
          LoadSnapshotStep(simulation.snapshots[i].id) =>
            /\ nodes' = simulation.snapshots[i].nodes
            /\ edges' = simulation.snapshots[i].edges
            /\ simulation'.currentTime = simulation.snapshots[i].time
     /\ \A snapshotId \in SnapshotIdInputs \ Ids(simulation.snapshots) :
          LoadSnapshotStep(snapshotId) => UNCHANGED storeVars
     /\ ~LoadProject =>
          /\ Len(simulation'.snapshots) >= Len(simulation.snapshots)
          /\ SubSeq(simulation'.snapshots, 1, Len(simulation.snapshots)) =
               simulation.snapshots]_vars

PairwiseDistinctIds(s) == \A i, j \in DOMAIN s : i # j => s[i].id # s[j].id

\* C26: in every reachable state the ids of the edges, the ids of the
\* simulation events and the ids of the snapshots are each pairwise distinct.
GeneratedIdsUnique ==
  /\ PairwiseDistinctIds(edges)
  /\ PairwiseDistinctIds(simulation.events)
  /\ PairwiseDistinctIds(simulation.snapshots)

\* C27: every event of simulation.events has a time on the timeline,
\* 0 <= time <= duration, whether the engine's tick or the session bridge
\* added it.
EventTimesOnTimeline ==
  \A i \in DOMAIN simulation.events :
    /\ 0 <= simulation.events[i].time
    /\ simulation.events[i].time <= simulation.duration

\* C28: a change notification of the rendering surface that removes nothing
\* (a node measured, an edge selected) leaves the store's nodes and edges as
\* the store's own operations wrote them: it never puts an older copy of the
\* node list or of the edge list in their place.
NotificationsKeepStoreWrites ==
  [][/\ \A id \in Ids(reactFlowNodes) :
          HandleNodesChangeStep(id, "dimensions") => nodes' = nodes
     /\ \A id \in Ids(reactFlowEdges) :
          HandleEdgesChangeStep(id, "select") => edges' = edges]_vars

\* the selection names nothing that is gone
SelectionLive ==
  /\ selectedNodeId = null \/ selectedNodeId \in Ids(nodes)
  /\ selectedEdgeId = null \/ selectedEdgeId \in Ids(edges)

\* C30: the selection never dangles.  A step that selects nothing new keeps
\* it so: when selectedNodeId is null or the id of a node of `nodes`, and
\* selectedEdgeId null or the id of an edge of `edges`, the same holds after
\* the step.
SelectionNeverDangles ==
  [][(SelectionLive /\ UNCHANGED <<selectedNodeId, selectedEdgeId>>)
       => SelectionLive']_vars

\* C29: a close with code 1000 schedules no reconnect; a reconnect timer that
\* fires after disconnect(), with no connect() called since, opens no socket;
\* and the attempts counted since the last open never exceed
\* reconnectAttempts.
ReconnectBoundedAndStopsOnClose ==
  [][/\ \A i \in DOMAIN simulationWebSocket.sockets :
          (SocketClosesStep(i, 1000) \/ CloseEventStep(i)) =>
            /\ simulationWebSocket'.reconnectTimers = simulationWebSocket.reconnectTimers
            /\ simulationWebSocket'.currentAttempts = simulationWebSocket.currentAttempts
     /\ (ReconnectTimerFires /\ simulationWebSocket.ws = 0) =>
          simulationWebSocket'.sockets = simulationWebSocket.sockets
     /\ simulationWebSocket'.currentAttempts <= reconnectAttempts]_vars

====
